---- MODULE Spec2Model ----
(***************************************************************************)
(* State-machine model of the calendar-connection lifecycle and the       *)
(* provider synchronisation of MeetSched:                                  *)
(*   server/services/office.ts   (OfficeConnectionService, the version in  *)
(*                                src/unnamed/part_002)                    *)
(*   server/routes.ts            (the HTTP handlers that drive it)         *)
(*   server/storage.ts           (MemStorage, the second class of the file)*)
(*   shared/schema.ts            (insertBookingSchema)                     *)
(*                                                                         *)
(* A request handler is cut at every await of a provider HTTP call: the    *)
(* code between two provider calls (MemStorage calls included) is one      *)
(* action.  req[p] holds the locals of the handler running in slot p; the  *)
(* `user` local is the object requireAuth read from the users map when the *)
(* request started, so it is a snapshot: updateUser replaces the map entry *)
(* by a new object and never mutates the old one.  A handler that ends     *)
(* leaves its response in res; Respond sends it before the next step.      *)
(***************************************************************************)
EXTENDS Integers, Sequences, FiniteSets, TLC

Null == "null"

\* ---------------------------------------------------------------- bounds
MaxSyncDepth == 2      \* recursion depth of syncUserData explored
MaxBookings == 3       \* bookings stored (the two samples included)
MaxContacts == 5       \* contacts stored (the three samples included)
MaxProviderContacts == 2   \* length of a provider contact listing
MaxSessions == 1       \* sessions created by logins
MaxDays == 40          \* days the clock runs on after the process started

\* ------------------------------------------------------ small input sets
UserIds == {"demo_user", "user_1"}
Emails == {"demo@bookme.ai", "ann@example.com"}
Procs == {"p1"}
ConnectionTypes == {"microsoft", "google"}
AccessTokens == {"at1", "at2"}
RefreshTokens == {"rt1", "rt2"}
EventIds == {"ev1"}
EventUrls == {"url1"}

ConnFields ==
  {"officeConnectionStatus", "officeConnectionType", "officeAccessToken",
   "officeRefreshToken", "officeCalendarId"}

\* process.env, fixed for the life of the server process
EnvCases ==
  { [MICROSOFT_CLIENT_ID |-> TRUE,  MICROSOFT_CLIENT_SECRET |-> TRUE,
     GOOGLE_CLIENT_ID |-> TRUE,     GOOGLE_CLIENT_SECRET |-> TRUE],
    [MICROSOFT_CLIENT_ID |-> TRUE,  MICROSOFT_CLIENT_SECRET |-> FALSE,
     GOOGLE_CLIENT_ID |-> FALSE,    GOOGLE_CLIENT_SECRET |-> FALSE] }

VARIABLES
  env,            \* process.env: which OAuth credentials are configured
  users,          \* MemStorage.users: id -> connection fields of the User
  contacts,       \* MemStorage.contacts, in insertion (id) order
  bookings,       \* MemStorage.bookings, in insertion (id) order
  req,            \* the request handler running in each slot, with its locals
  res,            \* the response being sent (NoResponse between responses)
  lastPatch,      \* keys of the data of the last updateUser the running
                  \* OfficeConnectionService call made ({} when none)
  createdEvents,  \* <<booking id, event id>> of every createEvent that succeeded
  lastPull,       \* user and provider listing of the last contact loop that
                  \* ran to its end
  userSessions,   \* MemStorage.userSessions: token -> session
  tokensIssued,   \* how many session tokens generateSessionToken has made
  clock           \* the time `new Date()` gives

\* What the session layer keeps: requireAuth reads it, login and logout
\* write it, and every other handler leaves it alone
sessionVars == <<userSessions, tokensIssued, clock>>

vars ==
  <<env, users, contacts, bookings, req, res, lastPatch, createdEvents, lastPull,
    userSessions, tokensIssued, clock>>

\* ------------------------------------------------- strings as char tuples
\* A name is a tuple of one-character strings, so that toLowerCase and
\* includes are computed and not assumed.
\* String.prototype.toLowerCase on the letters that occur in the inputs
LowerOf ==
  [c \in {"A", "C", "E", "J", "M", "N", "P", "R", "S", "T"} |->
     CASE c = "A" -> "a" [] c = "C" -> "c" [] c = "E" -> "e" [] c = "J" -> "j"
       [] c = "M" -> "m" [] c = "N" -> "n" [] c = "P" -> "p" [] c = "R" -> "r"
       [] c = "S" -> "s" [] c = "T" -> "t"]

LowerChar(c) == IF c \in DOMAIN LowerOf THEN LowerOf[c] ELSE c

toLowerCase(s) == [i \in 1..Len(s) |-> LowerChar(s[i])]

\* String.prototype.includes: n occurs in h as a contiguous substring
includes(h, n) ==
  \E k \in 0..(Len(h) - Len(n)) : \A i \in 1..Len(n) : h[k + i] = n[i]

\* ------------------------------------------------------------- MemStorage

\* findOrCreateUser / initializeSampleData: a new user is disconnected, all null
NewUser(email) ==
  [email |-> email,
   officeConnectionStatus |-> "disconnected", officeConnectionType |-> Null,
   officeAccessToken |-> Null, officeRefreshToken |-> Null,
   officeCalendarId |-> Null]

\* { ...user, ...data }
Merge(user, data) ==
  [f \in DOMAIN user |-> IF f \in DOMAIN data THEN data[f] ELSE user[f]]

\* (mutant) the data is merged into every user
updateUserEveryone(us, id, data) ==
  IF id \in DOMAIN us THEN [v \in DOMAIN us |-> Merge(us[v], data)] ELSE us

\* MemStorage.updateUser: unknown id -> undefined, nothing stored
updateUser(us, id, data) ==
  IF id \in DOMAIN us THEN [us EXCEPT ![id] = Merge(us[id], data)] ELSE us

\* MemStorage.findOrCreateUser: the user with that email, else a new user
\* `user_${currentUserId++}` (one new email is explored, so one new id)
findOrCreateUser(us, email) ==
  IF \E id \in DOMAIN us : us[id].email = email
  THEN us
  ELSE [id \in DOMAIN us \cup {"user_1"} |->
          IF id \in DOMAIN us THEN us[id] ELSE NewUser(email)]

\* The id of the user with that email
userByEmail(us, email) == CHOOSE id \in DOMAIN us : us[id].email = email

\* MemStorage.createUserSession: userSessions.set(session.token, newSession)
createUserSession(sessions, session) ==
  [t \in DOMAIN sessions \cup {session.token} |->
     IF t = session.token
     THEN [userId |-> session.userId, expiresAt |-> session.expiresAt]
     ELSE sessions[t]]

\* (mutant) a session is looked up and its expiry is not
validateUserSessionForever(sessions, us, token, now) ==
  IF token \notin DOMAIN sessions
  THEN [found |-> FALSE, userId |-> Null]
  ELSE IF sessions[token].userId \notin DOMAIN us
  THEN [found |-> FALSE, userId |-> Null]
  ELSE [found |-> TRUE, userId |-> sessions[token].userId]

\* MemStorage.validateUserSession: null (found is FALSE) for a token that
\* is not stored, for a session with expiresAt < now and for a session
\* whose user is not stored; now is the `new Date()` of the comparison
validateUserSession(sessions, us, token, now) ==
  IF token \notin DOMAIN sessions
  THEN [found |-> FALSE, userId |-> Null]
  ELSE IF sessions[token].expiresAt < now
  THEN [found |-> FALSE, userId |-> Null]
  ELSE IF sessions[token].userId \notin DOMAIN us
  THEN [found |-> FALSE, userId |-> Null]
  ELSE [found |-> TRUE, userId |-> sessions[token].userId]

\* MemStorage.deleteUserSession
deleteUserSession(sessions, token) ==
  [t \in DOMAIN sessions \ {token} |-> sessions[t]]

\* The members of class MemStorage (the class exported as `storage`).
MemStorageMethods ==
  {"findOrCreateUser", "getUser", "updateUser", "createUserSession",
   "validateUserSession", "deleteUserSession", "getContacts", "getContact",
   "getContactByName", "createContact", "getBookings", "getBooking",
   "getBookingsByDateRange", "createBooking", "updateBookingStatus",
   "getChatMessages", "createChatMessage", "getUserPreference",
   "setUserPreference"}

\* (mutant) the lookup compares names as they are written
getContactByNameExact(cs, name, userId) ==
  LET hits == {i \in 1..Len(cs) :
                 includes(cs[i].name, name) /\ cs[i].userId = userId}
  IN IF hits = {} THEN 0 ELSE CHOOSE i \in hits : \A j \in hits : i <= j

\* MemStorage.getContactByName: index (= id) of the first contact whose
\* lower-cased name includes the lower-cased argument and that belongs to
\* userId; 0 for undefined
getContactByName(cs, name, userId) ==
  LET n == toLowerCase(name)
      hits == {i \in 1..Len(cs) :
                 includes(toLowerCase(cs[i].name), n) /\ cs[i].userId = userId}
  IN IF hits = {} THEN 0 ELSE CHOOSE i \in hits : \A j \in hits : i <= j

\* MemStorage.createContact: id = currentContactId++, which is the position
createContact(cs, insertContact) ==
  Append(cs, [userId |-> insertContact.userId, name |-> insertContact.name,
              officeContactId |-> insertContact.officeContactId])

\* MemStorage.createBooking: defaults for what the insert leaves out
createBooking(bs, insertBooking) ==
  Append(bs, [userId |-> insertBooking.userId,
              startTime |-> insertBooking.startTime,
              endTime |-> insertBooking.endTime,
              status |-> IF insertBooking.status # Null
                         THEN insertBooking.status ELSE "scheduled",
              officeEventId |-> insertBooking.officeEventId,
              officeEventUrl |-> insertBooking.officeEventUrl])

\* MemStorage.updateBookingStatus
updateBookingStatus(bs, id, status) ==
  IF id \in 1..Len(bs) THEN [bs EXCEPT ![id].status = status] ELSE bs

\* MemStorage.initializeSampleData
SampleContacts ==
  << [userId |-> "demo_user", officeContactId |-> Null,
      name |-> <<"S", "a", "r", "a", "h", " ", "C", "h", "e", "n">>],
     [userId |-> "demo_user", officeContactId |-> Null,
      name |-> <<"A", "l", "e", "x", " ", "J", "o", "h", "n", "s", "o", "n">>],
     [userId |-> "demo_user", officeContactId |-> Null,
      name |-> <<"E", "m", "m", "a", " ", "R", "o", "d", "r", "i", "g", "u", "e", "z">>] >>

\* The day the process started, in days since Sunday 1 September 2024
\* (Tuesday 24 September): the sample bookings are made for that day
StartDay == 23

\* A Date as minutes since the start of 1 September 2024
At(day, hours, minutes) == day * 1440 + hours * 60 + minutes

SampleBookings ==
  << [userId |-> "demo_user", status |-> "scheduled",
      startTime |-> At(StartDay, 9, 0), endTime |-> At(StartDay, 9, 30),
      officeEventId |-> Null, officeEventUrl |-> Null],
     [userId |-> "demo_user", status |-> "scheduled",
      startTime |-> At(StartDay, 14, 0), endTime |-> At(StartDay, 15, 0),
      officeEventId |-> Null, officeEventUrl |-> Null] >>

\* ------------------------------------------------------------ AuthService

\* A request without an Authorization header that starts with 'Bearer ',
\* or with nothing after it: session tokens are numbered from 1
NoBearer == 0

\* AuthService.createSession, the expiry: `expiresAt.setDate(expiresAt.
\* getDate() + 30)` runs past the end of the month into the next ones, so
\* it is the same time of day thirty days on
SessionExpiry(now) == now + At(30, 0, 0)

\* AuthService.createSession: token is what generateSessionToken returned
createSession(sessions, userId, token, now) ==
  createUserSession(sessions, [userId |-> userId, token |-> token,
                               expiresAt |-> SessionExpiry(now)])

\* requireAuth: whether next() is called, the user put on the request
\* (req.user, Null when none is set) and the error answered otherwise
requireAuthOf(validated) ==
  IF validated.found
  THEN [ok |-> TRUE, userId |-> validated.userId, why |-> "none"]
  ELSE [ok |-> FALSE, userId |-> Null, why |-> "invalid_session"]

requireAuth(sessions, us, token, now) ==
  IF token = NoBearer
  THEN [ok |-> FALSE, userId |-> Null, why |-> "auth_required"]
  ELSE requireAuthOf(validateUserSession(sessions, us, token, now))

\* ------------------------------------------------ OfficeConnectionService

\* (mutant) the status is not looked at
hasValidConnectionAnyStatus(user) ==
  /\ user.officeAccessToken # Null
  /\ user.officeCalendarId # Null

\* hasValidConnection: connected, with a truthy access token and calendar id
hasValidConnection(user) ==
  /\ user.officeConnectionStatus = "connected"
  /\ user.officeAccessToken # Null
  /\ user.officeCalendarId # Null

\* What a token endpoint sends on success (access_token, optional refresh_token)
TokenData == [access_token : AccessTokens, refresh_token : RefreshTokens \cup {Null}]

\* exchangeMicrosoftCode: the request goes out with the secret when one is
\* configured; a rejected request is sent once more without it.  `first` and
\* `second` are the provider's response.ok to the two requests.
exchangeMicrosoftCode(secret, first, second) ==
  IF ~first /\ secret THEN second ELSE first

\* exchangeGoogleCode: one request
exchangeGoogleCode(first) == first

\* exchange*Code result: refreshToken is data.refresh_token || null
ExchangeResult(data) ==
  [accessToken |-> data.access_token, refreshToken |-> data.refresh_token]

\* refreshMicrosoftToken: same two-request shape as the exchange
refreshMicrosoftToken(secret, first, second) ==
  IF ~first /\ secret THEN second ELSE first

\* refreshGoogleToken: one request
refreshGoogleToken(first) == first

\* (mutant) the refresh token is not carried over, as in the code exchange
RefreshResultNoCarry(data, refreshToken) ==
  [accessToken |-> data.access_token, refreshToken |-> data.refresh_token]

\* refresh*Token result: refreshToken is data.refresh_token || refreshToken
RefreshResult(data, refreshToken) ==
  [accessToken |-> data.access_token,
   refreshToken |-> IF data.refresh_token # Null
                    THEN data.refresh_token ELSE refreshToken]

\* calendars.find(cal => cal.isDefaultCalendar) || calendars[0]; Null for none
primaryCalendar(calendars) ==
  IF \E i \in 1..Len(calendars) : calendars[i].isDefaultCalendar
  THEN calendars[CHOOSE i \in 1..Len(calendars) :
                   /\ calendars[i].isDefaultCalendar
                   /\ \A j \in 1..(i - 1) : ~calendars[j].isDefaultCalendar].id
  ELSE IF Len(calendars) > 0 THEN calendars[1].id ELSE Null

\* What GET /me/calendars can list
CalendarLists ==
  { <<>>,
    << [id |-> "cal1", isDefaultCalendar |-> FALSE] >>,
    << [id |-> "cal2", isDefaultCalendar |-> FALSE],
       [id |-> "cal1", isDefaultCalendar |-> TRUE] >> }

\* (mutant) a handshake without refresh token leaves the stored one alone
ConnectedPatchKeepingRefresh(type, tokenResponse, calendarId) ==
  IF tokenResponse.refreshToken = Null
  THEN [officeConnectionStatus |-> "connected", officeConnectionType |-> type,
        officeAccessToken |-> tokenResponse.accessToken,
        officeCalendarId |-> calendarId]
  ELSE [officeConnectionStatus |-> "connected", officeConnectionType |-> type,
        officeAccessToken |-> tokenResponse.accessToken,
        officeRefreshToken |-> tokenResponse.refreshToken,
        officeCalendarId |-> calendarId]

\* The data handleCallback passes to updateUser on success
ConnectedPatch(type, tokenResponse, calendarId) ==
  [officeConnectionStatus |-> "connected", officeConnectionType |-> type,
   officeAccessToken |-> tokenResponse.accessToken,
   officeRefreshToken |-> tokenResponse.refreshToken,
   officeCalendarId |-> calendarId]

\* (mutant) the catch block resets the connection instead of marking it
CallbackErrorPatchReset == [officeConnectionStatus |-> "disconnected"]

\* The data handleCallback passes to updateUser in its catch blocks
CallbackErrorPatch == [officeConnectionStatus |-> "error"]

\* (mutant) disconnect resets the status and leaves the rest
DisconnectPatchStatusOnly == [officeConnectionStatus |-> "disconnected"]

\* The data disconnect passes to updateUser
DisconnectPatch ==
  [officeConnectionStatus |-> "disconnected", officeConnectionType |-> Null,
   officeAccessToken |-> Null, officeRefreshToken |-> Null,
   officeCalendarId |-> Null]

\* (mutant) a successful refresh marks the connection connected again
RefreshPatchReconnecting(tokenResponse) ==
  [officeConnectionStatus |-> "connected",
   officeAccessToken |-> tokenResponse.accessToken,
   officeRefreshToken |-> tokenResponse.refreshToken]

\* The data refreshTokenIfNeeded passes to updateUser on success
RefreshPatch(tokenResponse) ==
  [officeAccessToken |-> tokenResponse.accessToken,
   officeRefreshToken |-> tokenResponse.refreshToken]

\* The data refreshTokenIfNeeded passes to updateUser in its catch block
RefreshErrorPatch == [officeConnectionStatus |-> "error"]

\* ------------------------------------------------------- request slots

NoToken == [accessToken |-> Null, refreshToken |-> Null]

\* A free slot.  list, created and repeat are locals of syncUserData: the
\* contact listing its last contact loop ran over, how many contacts that
\* loop created, and whether the listing equalled the one of the run before
\* it in the same call (the run before a retry).
Idle ==
  [op |-> "idle", pc |-> "idle", userId |-> Null, user |-> NewUser(Null),
   type |-> Null, tokenResponse |-> NoToken, depth |-> 0, refreshes |-> 0,
   bookingId |-> 0, list |-> <<>>, created |-> 0, repeat |-> FALSE]

NoResponse ==
  [op |-> "none", userId |-> Null, ok |-> TRUE, why |-> "none", sync |-> "none",
   bookingId |-> 0, refreshes |-> 0, depth |-> 0, eventId |-> Null,
   eventUrl |-> Null]

\* The response a handler sends: ok is a 2xx (or the success redirect), why
\* names the cause of a failure
Response(op, userId, ok, why) ==
  [NoResponse EXCEPT !.op = op, !.userId = userId, !.ok = ok, !.why = why]

\* No response is waiting to be sent
Ready == res.op = "none"

\* No login yet: the process has just started
NoSessions ==
  /\ userSessions = <<>>
  /\ tokensIssued = 0
  /\ clock = At(StartDay, 10, 0)

Init ==
  /\ env \in EnvCases
  /\ users = [id \in {"demo_user"} |-> NewUser("demo@bookme.ai")]
  /\ contacts = SampleContacts
  /\ bookings = SampleBookings
  /\ req = [p \in Procs |-> Idle]
  /\ res = NoResponse
  /\ lastPatch = {}
  /\ createdEvents = {}
  /\ lastPull = [userId |-> Null, list |-> <<>>]
  /\ NoSessions

\* res.json / res.redirect: the response leaves
Respond ==
  /\ ~Ready
  /\ res' = NoResponse
  /\ lastPatch' = {}
  /\ UNCHANGED <<sessionVars, env, users, contacts, bookings, req, createdEvents, lastPull>>

\* POST /api/auth/login: findOrCreateUser, then createSession with a token
\* generateSessionToken has not returned before (32 random bytes)
Login(email) ==
  /\ Ready
  /\ tokensIssued < MaxSessions
  /\ users' = findOrCreateUser(users, email)
  /\ tokensIssued' = tokensIssued + 1
  /\ userSessions' = createSession(userSessions, userByEmail(users', email),
                                   tokensIssued + 1, clock)
  /\ res' = Response("login", Null, TRUE, "none") @@ [token |-> tokensIssued + 1]
  /\ UNCHANGED <<clock, env, contacts, bookings, req, lastPatch, createdEvents, lastPull>>

\* GET /api/auth/me: requireAuth, then the user it put on the request is
\* answered.  token is what follows 'Bearer ' in the Authorization header.
GetMe(token) ==
  /\ Ready
  /\ res' = (LET auth == requireAuth(userSessions, users, token, clock)
             IN Response("me", auth.userId, auth.ok, auth.why)) @@ [token |-> token]
  /\ UNCHANGED <<sessionVars, env, users, contacts, bookings, req, lastPatch,
                 createdEvents, lastPull>>

\* POST /api/auth/logout: requireAuth, then deleteUserSession
Logout(token) ==
  /\ Ready
  /\ res' = (LET auth == requireAuth(userSessions, users, token, clock)
             IN Response("logout", auth.userId, auth.ok, auth.why)) @@ [token |-> token]
  /\ userSessions' = IF requireAuth(userSessions, users, token, clock).ok
                     THEN deleteUserSession(userSessions, token)
                     ELSE userSessions
  /\ UNCHANGED <<tokensIssued, clock, env, users, contacts, bookings, req, lastPatch,
                 createdEvents, lastPull>>

\* Ten days pass
Tick ==
  /\ Ready
  /\ clock + At(10, 0, 0) <= At(StartDay + MaxDays, 23, 59)
  /\ clock' = clock + At(10, 0, 0)
  /\ UNCHANGED <<userSessions, tokensIssued, env, users, contacts, bookings, req, res,
                 lastPatch, createdEvents, lastPull>>

\* (mutant) getAuthUrl stores the provider of the pending connection
GetAuthUrlPending(u, type) ==
  /\ Ready
  /\ u \in DOMAIN users
  /\ res' = IF type \notin ConnectionTypes
            THEN Response("connect", u, FALSE, "invalid_type")
            ELSE Response("connect", u, TRUE, "none")
  /\ users' = IF type \in ConnectionTypes
              THEN updateUser(users, u, [officeConnectionType |-> type])
              ELSE users
  /\ UNCHANGED <<sessionVars, env, contacts, bookings, req, lastPatch, createdEvents, lastPull>>

\* POST /api/office/connect -> getAuthUrl: the URL is returned when the
\* provider's client id is configured; nothing is stored either way
GetAuthUrl(u, type) ==
  /\ Ready
  /\ u \in DOMAIN users
  /\ res' = IF type \notin ConnectionTypes
            THEN Response("connect", u, FALSE, "invalid_type")
            ELSE IF (type = "microsoft" /\ ~env.MICROSOFT_CLIENT_ID)
                    \/ (type = "google" /\ ~env.GOOGLE_CLIENT_ID)
            THEN Response("connect", u, FALSE, "config")
            ELSE Response("connect", u, TRUE, "none")
  /\ UNCHANGED <<sessionVars, env, users, contacts, bookings, req, lastPatch, createdEvents, lastPull>>

\* handleCallback up to its first await of the provider: TRUE when the
\* credentials the provider needs are configured
CallbackConfigured(type) ==
  IF type = "microsoft" THEN env.MICROSOFT_CLIENT_ID
  ELSE env.GOOGLE_CLIENT_ID /\ env.GOOGLE_CLIENT_SECRET

\* (mutant) the unsupported-provider throw of handleCallback sits inside a
\* try block whose catch marks the user
CallbackStartMarking(p, error, code, stateParts) ==
  /\ Ready
  /\ req[p].pc = "idle"
  /\ LET userId == IF Len(stateParts) >= 1 THEN stateParts[1] ELSE Null
         type == IF Len(stateParts) >= 2 THEN stateParts[2] ELSE Null
         fail(why) == /\ res' = Response("callback", userId, FALSE, why)
                      /\ UNCHANGED req
     IN IF error THEN fail("oauth_error") /\ UNCHANGED users
        ELSE IF ~code \/ Len(stateParts) = 0
        THEN fail("missing_parameters") /\ UNCHANGED users
        ELSE IF Len(stateParts) < 2 THEN fail("invalid_state") /\ UNCHANGED users
        ELSE IF type \notin ConnectionTypes
        THEN /\ fail("unsupported")
             /\ users' = updateUser(users, userId, CallbackErrorPatch)
        ELSE IF ~CallbackConfigured(type) THEN fail("config") /\ UNCHANGED users
        ELSE /\ req' = [req EXCEPT ![p] = [Idle EXCEPT !.op = "callback",
                          !.pc = "exchange", !.userId = userId, !.type = type]]
             /\ UNCHANGED <<res, users>>
  /\ UNCHANGED <<sessionVars, env, contacts, bookings, lastPatch, createdEvents, lastPull>>

\* GET /api/office/callback, up to the token request of handleCallback.
\* stateParts is the `state` query parameter split at ':' (<<>> when absent).
CallbackStart(p, error, code, stateParts) ==
  /\ Ready
  /\ req[p].pc = "idle"
  /\ LET userId == IF Len(stateParts) >= 1 THEN stateParts[1] ELSE Null
         type == IF Len(stateParts) >= 2 THEN stateParts[2] ELSE Null
         fail(why) == /\ res' = Response("callback", userId, FALSE, why)
                      /\ UNCHANGED req
     IN IF error THEN fail("oauth_error")
        ELSE IF ~code \/ Len(stateParts) = 0 THEN fail("missing_parameters")
        ELSE IF Len(stateParts) < 2 THEN fail("invalid_state")
        ELSE IF type \notin ConnectionTypes THEN fail("unsupported")
        ELSE IF ~CallbackConfigured(type) THEN fail("config")
        ELSE /\ req' = [req EXCEPT ![p] = [Idle EXCEPT !.op = "callback",
                          !.pc = "exchange", !.userId = userId, !.type = type]]
             /\ UNCHANGED res
  /\ UNCHANGED <<sessionVars, env, users, contacts, bookings, lastPatch, createdEvents, lastPull>>

\* handleCallback's catch block: mark the user, rethrow to the route
CallbackFail(p, why) ==
  /\ users' = updateUser(users, req[p].userId, CallbackErrorPatch)
  /\ lastPatch' = DOMAIN CallbackErrorPatch
  /\ res' = Response("callback", req[p].userId, FALSE, why)
  /\ req' = [req EXCEPT ![p] = Idle]

\* handleCallback: the token request(s) came back
CallbackExchange(p, first, second, data) ==
  /\ Ready
  /\ req[p].pc = "exchange"
  /\ LET ok == IF req[p].type = "microsoft"
               THEN exchangeMicrosoftCode(env.MICROSOFT_CLIENT_SECRET, first, second)
               ELSE exchangeGoogleCode(first)
     IN IF ok
        THEN /\ req' = [req EXCEPT ![p].pc = "discovery",
                                   ![p].tokenResponse = ExchangeResult(data)]
             /\ UNCHANGED <<users, lastPatch, res>>
        ELSE CallbackFail(p, "exchange")
  /\ UNCHANGED <<sessionVars, env, contacts, bookings, createdEvents, lastPull>>

\* handleCallback: getMicrosoftCalendars / getGoogleUserInfo came back
CallbackDiscovery(p, ok, calendars) ==
  /\ Ready
  /\ req[p].pc = "discovery"
  /\ LET calendarId == IF req[p].type = "microsoft"
                       THEN primaryCalendar(calendars) ELSE "primary"
     IN IF ok /\ calendarId # Null
        THEN /\ users' = updateUser(users, req[p].userId,
                           ConnectedPatch(req[p].type, req[p].tokenResponse, calendarId))
             /\ lastPatch' = ConnFields
             /\ res' = Response("callback", req[p].userId, TRUE, "none")
             /\ req' = [req EXCEPT ![p] = Idle]
        ELSE CallbackFail(p, "discovery")
  /\ UNCHANGED <<sessionVars, env, contacts, bookings, createdEvents, lastPull>>

\* DELETE /api/office/disconnect
Disconnect(u) ==
  /\ Ready
  /\ u \in DOMAIN users
  /\ users' = updateUser(users, u, DisconnectPatch)
  /\ lastPatch' = DOMAIN DisconnectPatch
  /\ res' = Response("disconnect", u, TRUE, "none")
  /\ UNCHANGED <<sessionVars, env, contacts, bookings, req, createdEvents, lastPull>>

\* ------------------------------------------------------------ syncUserData

\* response.statusText of a failed provider request, as a tuple of words.
\* The reason phrase is the server's choice; a 401 may or may not spell the
\* number out.
HttpFailures ==
  { <<"Unauthorized">>, <<"401", "Unauthorized">>, <<"Internal", "Server", "Error">> }

\* `Failed to fetch ... : ${response.statusText}`
FetchErrorMessage(statusText) == <<"Failed", "to", "fetch">> \o statusText

\* error.message.includes('401')
includes401(message) == \E i \in 1..Len(message) : message[i] = "401"

\* The message of the TypeError of name.toLowerCase() on an undefined name
TypeErrorMessage == <<"Cannot", "read", "properties", "of", "undefined">>

\* Entries of a provider contact listing: displayName may be missing
ProviderContacts ==
  { [hasName |-> TRUE, displayName |-> <<"A", "n", "n">>, id |-> "x1"],
    [hasName |-> TRUE, displayName |-> <<"a", "n", "n">>, id |-> "x2"],
    [hasName |-> FALSE, displayName |-> <<>>, id |-> "x3"] }

ProviderContactLists ==
  UNION { [1..n -> ProviderContacts] : n \in 0..MaxProviderContacts }

\* The contact loop of syncUserData over `list`: a contact is created when
\* getContactByName finds none.  A Microsoft entry without displayName makes
\* getContactByName throw; a Google entry without one is skipped.
RECURSIVE ImportContacts(_, _, _, _, _)
ImportContacts(cs, userId, type, list, created) ==
  IF list = <<>>
  THEN [contacts |-> cs, created |-> created, threw |-> FALSE]
  ELSE LET c == Head(list)
       IN IF ~c.hasName
          THEN IF type = "microsoft"
               THEN [contacts |-> cs, created |-> created, threw |-> TRUE]
               ELSE ImportContacts(cs, userId, type, Tail(list), created)
          ELSE IF getContactByName(cs, c.displayName, userId) # 0
          THEN ImportContacts(cs, userId, type, Tail(list), created)
          ELSE ImportContacts(
                 createContact(cs, [userId |-> userId, name |-> c.displayName,
                                    officeContactId |-> c.id]),
                 userId, type, Tail(list), created + 1)

\* POST /api/office/sync up to the first provider call of syncUserData
SyncStart(p, u) ==
  /\ Ready
  /\ req[p].pc = "idle"
  /\ u \in DOMAIN users
  /\ IF hasValidConnection(users[u])
     THEN /\ req' = [req EXCEPT ![p] = [Idle EXCEPT !.op = "sync",
                       !.pc = "contacts", !.userId = u, !.user = users[u],
                       !.type = users[u].officeConnectionType]]
          /\ UNCHANGED res
     ELSE /\ res' = Response("sync", u, FALSE, "not_connected")
          /\ UNCHANGED req
  /\ UNCHANGED <<sessionVars, env, users, contacts, bookings, lastPatch, createdEvents, lastPull>>

\* syncUserData throws: every enclosing run rethrows, the route answers 500
SyncThrow(p, why) ==
  /\ res' = [Response("sync", req[p].userId, FALSE, why) EXCEPT
               !.refreshes = req[p].refreshes, !.depth = req[p].depth]
  /\ req' = [req EXCEPT ![p] = Idle]

\* refreshTokenIfNeeded throws before its try block
RefreshThrowsEarly(user) ==
  \/ user.officeRefreshToken = Null
  \/ IF user.officeConnectionType = "microsoft"
     THEN ~env.MICROSOFT_CLIENT_ID ELSE ~env.GOOGLE_CLIENT_ID

\* The catch block of syncUserData, up to the request refreshTokenIfNeeded
\* sends
SyncCatch(p, message) ==
  /\ IF includes401(message)
     THEN IF RefreshThrowsEarly(req[p].user)
          THEN SyncThrow(p, "refresh_unavailable")
          ELSE /\ req' = [req EXCEPT ![p].pc = "refresh"]
               /\ UNCHANGED res
     ELSE SyncThrow(p, "sync_failed")
  /\ UNCHANGED <<users, lastPatch>>

\* What the provider may answer to a listing request: "ok" or a failure.
\* A failure that spells 401 is explored while depth < MaxSyncDepth.
ListAnswers(p) ==
  {<<"ok">>} \cup {f \in HttpFailures : includes401(f) => req[p].depth < MaxSyncDepth}

\* syncUserData: the contact listing came back; the contact loop runs
SyncContacts(p, ans, list) ==
  /\ Ready
  /\ req[p].pc = "contacts"
  /\ ans \in ListAnswers(p)
  /\ IF ans # <<"ok">>
     THEN /\ SyncCatch(p, FetchErrorMessage(ans))
          /\ UNCHANGED <<contacts, lastPull>>
     ELSE \E r \in {ImportContacts(contacts, req[p].userId, req[p].type, list, 0)} :
             /\ Len(r.contacts) <= MaxContacts
             /\ contacts' = r.contacts
             /\ IF r.threw
                THEN /\ SyncCatch(p, TypeErrorMessage)
                     /\ UNCHANGED lastPull
                ELSE /\ req' = [req EXCEPT ![p].pc = "events", ![p].list = list,
                                  ![p].created = r.created,
                                  ![p].repeat = (lastPull.userId = req[p].userId
                                                 /\ lastPull.list = list)]
                     /\ lastPull' = [userId |-> req[p].userId, list |-> list]
                     /\ UNCHANGED <<users, lastPatch, res>>
  /\ UNCHANGED <<sessionVars, env, bookings, createdEvents>>

\* Events a provider lists for the window of a pull
NoEvents == <<>>

\* (mutant) every event listed is stored as a booking of the user
BookingsAfterEventsImporting(bs, userId, events) ==
  bs \o [i \in 1..Len(events) |->
          [userId |-> userId, status |-> "scheduled",
           startTime |-> events[i].start, endTime |-> events[i].end,
           officeEventId |-> events[i].id, officeEventUrl |-> Null]]

\* syncUserData, events: `syncedCalendars = events.length` is all that is
\* done with the events listed; the bookings are as before
BookingsAfterEvents(bs, userId, events) == bs

\* syncUserData: the event listing came back with events (when ans is ok)
SyncEvents(p, ans, events) ==
  /\ Ready
  /\ req[p].pc = "events"
  /\ ans \in ListAnswers(p)
  /\ IF ans # <<"ok">>
     THEN SyncCatch(p, FetchErrorMessage(ans)) /\ UNCHANGED bookings
     ELSE /\ bookings' = BookingsAfterEvents(bookings, req[p].userId, events)
          /\ res' = [Response("sync", req[p].userId, TRUE, "none") EXCEPT
                       !.refreshes = req[p].refreshes, !.depth = req[p].depth]
                    @@ [calendars |-> Len(events)]
          /\ req' = [req EXCEPT ![p] = Idle]
          /\ UNCHANGED <<users, lastPatch>>
  /\ UNCHANGED <<sessionVars, env, contacts, createdEvents, lastPull>>

\* refreshTokenIfNeeded: the token endpoint answered.  On success the retry
\* `this.syncUserData(user)` starts with the same user object.
SyncRefresh(p, first, second, data) ==
  /\ Ready
  /\ req[p].pc = "refresh"
  /\ LET user == req[p].user
         ok == IF user.officeConnectionType = "microsoft"
               THEN refreshMicrosoftToken(env.MICROSOFT_CLIENT_SECRET, first, second)
               ELSE refreshGoogleToken(first)
         counted == [req EXCEPT ![p].refreshes = req[p].refreshes + 1]
     IN IF ok
        THEN /\ users' = updateUser(users, req[p].userId,
                           RefreshPatch(RefreshResult(data, user.officeRefreshToken)))
             /\ lastPatch' = DOMAIN RefreshPatch(NoToken)
             /\ IF hasValidConnection(user)
                THEN /\ req' = [counted EXCEPT ![p].pc = "contacts",
                                               ![p].depth = req[p].depth + 1]
                     /\ UNCHANGED res
                ELSE /\ res' = [Response("sync", req[p].userId, FALSE, "not_connected")
                                  EXCEPT !.refreshes = req[p].refreshes + 1,
                                         !.depth = req[p].depth + 1]
                     /\ req' = [req EXCEPT ![p] = Idle]
        ELSE /\ users' = updateUser(users, req[p].userId, RefreshErrorPatch)
             /\ lastPatch' = DOMAIN RefreshErrorPatch
             /\ res' = [Response("sync", req[p].userId, FALSE, "refresh_failed")
                          EXCEPT !.refreshes = req[p].refreshes + 1,
                                 !.depth = req[p].depth]
             /\ req' = [req EXCEPT ![p] = Idle]
  /\ UNCHANGED <<sessionVars, env, contacts, bookings, createdEvents, lastPull>>

\* ------------------------------------------------------ POST /api/bookings

\* What a request body may say about fields insertBookingSchema accepts
BookingStatusInputs == {Null, "scheduled", "confirmed"}

BookingExternalInputs ==
  { [officeEventId |-> Null, officeEventUrl |-> Null],
    [officeEventId |-> "ev0", officeEventUrl |-> "url0"] }

\* (mutant) the route lets the sync error escape to its outer catch: 400
SyncErrorResponseRethrown(userId, bookingId) ==
  [Response("booking", userId, FALSE, "invalid") EXCEPT !.bookingId = bookingId]

\* The route's catch (syncError) and the res.json after it
SyncErrorResponse(userId, bookingId) ==
  [Response("booking", userId, TRUE, "none") EXCEPT
     !.sync = "failed", !.bookingId = bookingId]

\* The res.json after a try block that ended without a response and
\* without an error
SkippedResponse(userId, bookingId) ==
  [Response("booking", userId, TRUE, "none") EXCEPT
     !.sync = "skipped", !.bookingId = bookingId]

\* A start and an end that a request body may carry
OneSlot == [startTime |-> At(StartDay + 2, 14, 0), endTime |-> At(StartDay + 2, 15, 0)]

\* POST /api/bookings up to the createEvent request of syncBookingToOffice.
\* valid: insertBookingSchema.parse accepts the body, that is, every field
\* has the type of its column; the schema relates no two fields.
BookingStart(p, u, valid, status, ext, times) ==
  /\ Ready
  /\ req[p].pc = "idle"
  /\ u \in DOMAIN users
  /\ Len(bookings) < MaxBookings
  /\ IF ~valid
     THEN /\ res' = Response("booking", u, FALSE, "invalid")
          /\ UNCHANGED <<bookings, req>>
     ELSE LET id == Len(bookings) + 1
          IN /\ bookings' = createBooking(bookings,
                              [userId |-> u, status |-> status,
                               startTime |-> times.startTime,
                               endTime |-> times.endTime,
                               officeEventId |-> ext.officeEventId,
                               officeEventUrl |-> ext.officeEventUrl])
             /\ IF hasValidConnection(users[u])
                THEN IF users[u].officeConnectionType \in ConnectionTypes
                     THEN /\ req' = [req EXCEPT ![p] = [Idle EXCEPT
                                       !.op = "booking", !.pc = "createEvent",
                                       !.userId = u, !.user = users[u],
                                       !.type = users[u].officeConnectionType,
                                       !.bookingId = id]]
                          /\ UNCHANGED res
                     ELSE /\ res' = SyncErrorResponse(u, id)
                          /\ UNCHANGED req
                ELSE /\ res' = SkippedResponse(u, id)
                     /\ UNCHANGED req
  /\ UNCHANGED <<sessionVars, env, users, contacts, lastPatch, createdEvents, lastPull>>

\* POST /api/bookings from the answer to the createEvent request on.
\* eventId is result.id (Null when the provider's answer has none),
\* eventUrl the join link (Null when there is none).
BookingCreateEvent(p, ok, eventId, eventUrl) ==
  /\ Ready
  /\ req[p].pc = "createEvent"
  /\ LET u == req[p].userId
         id == req[p].bookingId
         sent(r) == res' = [r EXCEPT !.eventId = IF ok THEN eventId ELSE Null,
                                     !.eventUrl = IF ok THEN eventUrl ELSE Null]
     IN /\ createdEvents' = IF ok /\ eventId # Null
                            THEN createdEvents \cup {<<id, eventId>>}
                            ELSE createdEvents
        /\ IF ~ok
           THEN sent(SyncErrorResponse(u, id)) /\ UNCHANGED bookings
           ELSE IF eventId = Null
           THEN sent(SkippedResponse(u, id)) /\ UNCHANGED bookings
           ELSE IF "updateBooking" \in MemStorageMethods
           THEN /\ bookings' = [bookings EXCEPT ![id].officeEventId = eventId,
                                                ![id].officeEventUrl = eventUrl]
                /\ sent([Response("booking", u, TRUE, "none") EXCEPT
                           !.sync = "success", !.bookingId = id])
           ELSE sent(SyncErrorResponse(u, id)) /\ UNCHANGED bookings
  /\ req' = [req EXCEPT ![p] = Idle]
  /\ UNCHANGED <<sessionVars, env, users, contacts, lastPatch, lastPull>>

\* (mutant) the route looks the booking up and does not compare its owner
UpdateBookingStatusAnyOwner(u, id, status) ==
  /\ Ready
  /\ u \in DOMAIN users
  /\ IF status = Null
     THEN /\ res' = [Response("status", u, FALSE, "status_required") EXCEPT !.bookingId = id]
          /\ UNCHANGED bookings
     ELSE IF id \in 1..Len(bookings)
     THEN /\ bookings' = updateBookingStatus(bookings, id, status)
          /\ res' = [Response("status", u, TRUE, "none") EXCEPT !.bookingId = id]
     ELSE /\ res' = [Response("status", u, FALSE, "not_found") EXCEPT !.bookingId = id]
          /\ UNCHANGED bookings
  /\ UNCHANGED <<sessionVars, env, users, contacts, req, lastPatch, createdEvents, lastPull>>

\* PATCH /api/bookings/:id/status; a body without status has status Null
UpdateBookingStatus(u, id, status) ==
  /\ Ready
  /\ u \in DOMAIN users
  /\ IF status = Null
     THEN /\ res' = [Response("status", u, FALSE, "status_required") EXCEPT !.bookingId = id]
          /\ UNCHANGED bookings
     ELSE IF id \in 1..Len(bookings) /\ bookings[id].userId = u
     THEN /\ bookings' = updateBookingStatus(bookings, id, status)
          /\ res' = [Response("status", u, TRUE, "none") EXCEPT !.bookingId = id]
     ELSE /\ res' = [Response("status", u, FALSE, "not_found") EXCEPT !.bookingId = id]
          /\ UNCHANGED bookings
  /\ UNCHANGED <<sessionVars, env, users, contacts, req, lastPatch, createdEvents, lastPull>>

\* POST /api/contacts: no lookup before createContact
CreateContact(u, name) ==
  /\ Ready
  /\ u \in DOMAIN users
  /\ Len(contacts) < MaxContacts
  /\ contacts' = createContact(contacts, [userId |-> u, name |-> name,
                                          officeContactId |-> Null])
  /\ res' = Response("contact", u, TRUE, "none")
  /\ UNCHANGED <<sessionVars, env, users, bookings, req, lastPatch, createdEvents, lastPull>>

\* --------------------------------------------------------- specifications

\* The `state` query parameter of the callback, split at ':'
CallbackStates ==
  {<<>>, <<"demo_user">>}
    \cup {<<u, t, "1">> : u \in {"demo_user", "ghost"},
                          t \in ConnectionTypes \cup {"teams"}}

\* Contact listings of the connection specification
ShortContactLists ==
  {l \in ProviderContactLists : Len(l) <= 1 /\ \A i \in 1..Len(l) : l[i].id = "x1"}

\* Connection lifecycle, token refresh and pull of the demo user
Next ==
  \/ Respond
  \/ \E t \in ConnectionTypes \cup {"teams"} : GetAuthUrl("demo_user", t)
  \/ \E p \in Procs, error \in BOOLEAN, code \in BOOLEAN, st \in CallbackStates :
       CallbackStart(p, error, code, st)
  \/ \E p \in Procs, first \in BOOLEAN, second \in BOOLEAN, data \in TokenData :
       CallbackExchange(p, first, second, data)
  \/ \E p \in Procs, ok \in BOOLEAN, calendars \in CalendarLists :
       CallbackDiscovery(p, ok, calendars)
  \/ Disconnect("demo_user")
  \/ \E p \in Procs : SyncStart(p, "demo_user")
  \/ \E p \in Procs, ans \in {<<"ok">>} \cup HttpFailures, list \in ShortContactLists :
       SyncContacts(p, ans, list)
  \/ \E p \in Procs, ans \in {<<"ok">>} \cup HttpFailures : SyncEvents(p, ans, NoEvents)
  \/ \E p \in Procs, first \in BOOLEAN, second \in BOOLEAN, data \in TokenData :
       SyncRefresh(p, first, second, data)

Spec == Init /\ [][Next]_vars

\* One token answer, for the specifications that are not about tokens
OneToken == [access_token |-> "at1", refresh_token |-> "rt1"]

\* One calendar listing, for the specifications that are not about discovery
OneCalendar == << [id |-> "cal1", isDefaultCalendar |-> TRUE] >>

\* Names POST /api/contacts is sent
ContactNames == {<<"A", "N", "N">>}

\* The state of users and sessions once ann@example.com has logged in
AnnLoggedIn ==
  /\ users = findOrCreateUser([id \in {"demo_user"} |-> NewUser("demo@bookme.ai")],
                              "ann@example.com")
  /\ tokensIssued = 1
  /\ userSessions = createSession(<<>>, "user_1", 1, At(StartDay, 10, 0))
  /\ clock = At(StartDay, 10, 0)

\* The second user has logged in; nothing else has happened
InitPull ==
  /\ env \in EnvCases
  /\ AnnLoggedIn
  /\ contacts = SampleContacts
  /\ bookings = SampleBookings
  /\ req = [p \in Procs |-> Idle]
  /\ res = NoResponse
  /\ lastPatch = {}
  /\ createdEvents = {}
  /\ lastPull = [userId |-> Null, list |-> <<>>]

\* Pulls of contacts against rich listings, next to another user's contacts
NextPull ==
  \/ Respond
  \/ \E p \in Procs, t \in ConnectionTypes :
       CallbackStart(p, FALSE, TRUE, <<"demo_user", t, "1">>)
  \/ \E p \in Procs : CallbackExchange(p, TRUE, TRUE, OneToken)
  \/ \E p \in Procs : CallbackDiscovery(p, TRUE, OneCalendar)
  \/ \E p \in Procs, u \in UserIds : SyncStart(p, u)
  \/ \E p \in Procs, list \in ProviderContactLists : SyncContacts(p, <<"ok">>, list)
  \/ \E p \in Procs, ans \in {<<"ok">>, <<"401", "Unauthorized">>} : SyncEvents(p, ans, NoEvents)
  \/ \E p \in Procs : SyncRefresh(p, TRUE, TRUE, OneToken)
  \/ \E name \in ContactNames : CreateContact("user_1", name)

SpecPull == InitPull /\ [][NextPull]_vars

\* Booking creation and its push to the provider, for every user
NextBooking ==
  \/ Respond
  \/ Login("ann@example.com")
  \/ \E p \in Procs, t \in ConnectionTypes :
       CallbackStart(p, FALSE, TRUE, <<"demo_user", t, "1">>)
  \/ \E p \in Procs, first \in BOOLEAN : CallbackExchange(p, first, first, OneToken)
  \/ \E p \in Procs, ok \in BOOLEAN : CallbackDiscovery(p, ok, OneCalendar)
  \/ Disconnect("demo_user")
  \/ \E p \in Procs, u \in UserIds, valid \in BOOLEAN,
        status \in BookingStatusInputs, ext \in BookingExternalInputs :
       BookingStart(p, u, valid, status, ext, OneSlot)
  \/ \E p \in Procs, ok \in BOOLEAN, eventId \in EventIds \cup {Null},
        eventUrl \in EventUrls \cup {Null} :
       BookingCreateEvent(p, ok, eventId, eventUrl)
  \/ \E u \in UserIds, id \in 1..MaxBookings : UpdateBookingStatus(u, id, "cancelled")

SpecBooking == Init /\ [][NextBooking]_vars

\* ----------------------------------------------------------------- claims

\* C1: when handleCallback fails at the token exchange or at the calendar /
\* profile discovery, the call raises to its caller and the user (when the
\* id names one) has status error, whatever the state before.
C1_CallbackFailureMarksError ==
  (res.op = "callback" /\ res.why \in {"exchange", "discovery"})
    => /\ ~res.ok
       /\ res.userId \in DOMAIN users
            => users[res.userId].officeConnectionStatus = "error"

\* C1 witness: a discovery failure answered for a user who was connected
\* before (the tokens of that connection are still stored)
C1_Witness ==
  /\ res.op = "callback" /\ res.why = "discovery"
  /\ res.userId = "demo_user"
  /\ users["demo_user"].officeAccessToken # Null
  /\ users["demo_user"].officeConnectionStatus = "error"

\* C2: every updateUser the connection / sync code makes carries all five
\* connection fields.
C2_EveryWriteIsComplete == lastPatch \in {{}, ConnFields}

\* C3: when a pull fails with an authorization error and the token refresh
\* then fails, for whatever reason, the caller gets an error and the user's
\* status is error.
C3_RefreshFailureMarksError ==
  (res.op = "sync" /\ res.why \in {"refresh_failed", "refresh_unavailable"})
    => /\ ~res.ok
       /\ users[res.userId].officeConnectionStatus = "error"

\* C4: one call of syncUserData refreshes the token at most once and re-runs
\* the pull at most once.
C4_AtMostOneRefreshAndRetry ==
  \A p \in Procs : req[p].refreshes <= 1 /\ req[p].depth <= 1

\* C5: when a pull fails with an authorization error, the refresh succeeds
\* and the retried pull fails, the caller gets an error and the user's
\* status is error.
C5_RetryFailureMarksError ==
  (res.op = "sync" /\ res.why = "sync_failed" /\ res.depth >= 1)
    => /\ ~res.ok
       /\ users[res.userId].officeConnectionStatus = "error"

\* C6: a booking request is refused only when nothing was persisted (invalid
\* data); once the booking is persisted the response is a success that
\* carries the stored booking and a sync outcome of success, failed or
\* skipped, whatever the push did.
C6_BookingCreationSurvivesSync ==
  res.op = "booking"
    => IF res.bookingId = 0
       THEN ~res.ok
       ELSE /\ res.ok
            /\ res.sync \in {"success", "failed", "skipped"}
            /\ res.bookingId \in 1..Len(bookings)
            /\ bookings[res.bookingId].userId = res.userId

\* C6 witness: the createEvent request failed and the booking is answered
C6_Witness ==
  /\ res.op = "booking" /\ res.ok /\ res.sync = "failed"
  /\ res.eventId = Null
  /\ res.bookingId = Len(bookings)

\* C7: after a failed push the stored booking has status scheduled and no
\* external event id or url.
C7_FailedPushLeavesScheduledAndNull ==
  (res.op = "booking" /\ res.sync = "failed")
    => /\ bookings[res.bookingId].status = "scheduled"
       /\ bookings[res.bookingId].officeEventId = Null
       /\ bookings[res.bookingId].officeEventUrl = Null

\* C8: a stored booking has an external event id only if a successful
\* createEvent for that booking returned it.
C8_ExternalIdOnlyFromCreateEvent ==
  \A id \in 1..Len(bookings) :
    bookings[id].officeEventId # Null
      => <<id, bookings[id].officeEventId>> \in createdEvents

\* C9: after createEvent succeeded for a booking, the stored booking carries
\* the id and the join url createEvent returned.
C9_PushRoundTrip ==
  (res.op = "booking" /\ res.eventId # Null)
    => /\ bookings[res.bookingId].officeEventId = res.eventId
       /\ bookings[res.bookingId].officeEventUrl = res.eventUrl

\* A contact loop that ran over the listing of the loop before it, for the
\* same user, created nothing
C10_SecondRunCreatesNone ==
  \A p \in Procs :
    (req[p].pc = "events" /\ req[p].repeat) => req[p].created = 0

\* A contact the pull appends (it carries the provider's contact id) has a
\* name that differs, ignoring case, from every other contact of its user
C10_PullAddsNoDuplicate ==
  \A i \in (Len(contacts) + 1)..Len(contacts') :
    contacts'[i].officeContactId # Null
      => \A j \in 1..Len(contacts') :
           (j # i /\ contacts'[j].userId = contacts'[i].userId)
             => toLowerCase(contacts'[j].name) # toLowerCase(contacts'[i].name)

\* C10: a pull that follows a pull of the same user with identical contact
\* data creates no contact, and no pull adds a contact whose name equals,
\* ignoring case, that of another contact of the user.
C10_PullTwiceIsIdempotent ==
  []C10_SecondRunCreatesNone /\ [][C10_PullAddsNoDuplicate]_vars

\* C10 witness: the second of two pulls with the same non-empty listing has
\* run its contact loop, the first having created a contact
C10_Witness ==
  \E p \in Procs :
    /\ req[p].pc = "events" /\ req[p].repeat /\ req[p].depth = 0
    /\ Len(req[p].list) >= 1
    /\ req[p].created = 0
    /\ \E i \in 1..Len(contacts) :
         /\ contacts[i].userId = req[p].userId
         /\ contacts[i].officeContactId = req[p].list[1].id

\* ------------------------------------------- pulls of a renamed contact

\* The provider contact x1 before and after its display name was changed
RenamedContacts ==
  { [hasName |-> TRUE, displayName |-> <<"A", "n", "n">>, id |-> "x1"],
    [hasName |-> TRUE, displayName |-> <<"E", "v", "e">>, id |-> "x1"] }

RenamedContactLists == {<<c>> : c \in RenamedContacts}

\* Pulls of the demo user between which the provider renames a contact
NextRename ==
  \/ Respond
  \/ \E p \in Procs, t \in ConnectionTypes :
       CallbackStart(p, FALSE, TRUE, <<"demo_user", t, "1">>)
  \/ \E p \in Procs : CallbackExchange(p, TRUE, TRUE, OneToken)
  \/ \E p \in Procs : CallbackDiscovery(p, TRUE, OneCalendar)
  \/ \E p \in Procs : SyncStart(p, "demo_user")
  \/ \E p \in Procs, list \in RenamedContactLists : SyncContacts(p, <<"ok">>, list)
  \/ \E p \in Procs : SyncEvents(p, <<"ok">>, NoEvents)

SpecRename == Init /\ [][NextRename]_vars

\* C11: no two contacts of a user carry the same non-null external contact
\* id, whatever pulls ran and whatever the provider renamed between them.
C11_NoDuplicateExternalContactId ==
  \A i, j \in 1..Len(contacts) :
    (i # j /\ contacts[i].userId = contacts[j].userId
           /\ contacts[i].officeContactId # Null)
      => contacts[i].officeContactId # contacts[j].officeContactId

\* C12: getAuthUrl for a provider whose client id is not configured fails,
\* and a connect request, failing or not, changes nothing that is stored.
C12_GetAuthUrlWritesNothing ==
  [][ /\ (res.op = "none" /\ res'.op = "connect")
           => UNCHANGED <<users, contacts, bookings, req, lastPatch,
                          createdEvents, lastPull>>
      /\ \A t \in ConnectionTypes :
           ( /\ GetAuthUrl("demo_user", t)
             /\ \/ t = "microsoft" /\ ~env.MICROSOFT_CLIENT_ID
                \/ t = "google" /\ ~env.GOOGLE_CLIENT_ID )
             => (~res'.ok /\ res'.why = "config") ]_vars

\* C12 witness: a connect request for the unconfigured provider was refused
\* while the user is connected to the other one
C12_Witness ==
  /\ res.op = "connect" /\ ~res.ok /\ res.why = "config"
  /\ users[res.userId].officeConnectionStatus = "connected"

\* C13: disconnect leaves the user disconnected with type, tokens and
\* calendar id null, whatever the state before, and other users as they
\* were; a disconnect of a user already in that state changes nothing.
C13_DisconnectClearsAndIsIdempotent ==
  [][ (res.op = "none" /\ res'.op = "disconnect")
        => LET u == res'.userId
           IN /\ users'[u] = NewUser(users[u].email)
              /\ \A v \in DOMAIN users \ {u} : users'[v] = users[v]
              /\ updateUser(users', u, DisconnectPatch) = users'
              /\ users[u] = NewUser(users[u].email) => users' = users ]_vars

\* C13 witness: a disconnect was answered for a user who was connected when
\* the pull still in flight started
C13_Witness ==
  /\ res.op = "disconnect"
  /\ users[res.userId] = NewUser(users[res.userId].email)
  /\ \E p \in Procs :
       /\ req[p].op = "sync" /\ req[p].userId = res.userId
       /\ req[p].user.officeConnectionStatus = "connected"

\* ------------------------------------------------ two requests in flight

\* Two request slots: a handler awaiting the provider does not block the
\* event loop, so a second request may start and finish meanwhile
Handlers == {"p1", "p2"}

InitConcurrent ==
  /\ env \in EnvCases
  /\ users = [id \in {"demo_user"} |-> NewUser("demo@bookme.ai")]
  /\ contacts = SampleContacts
  /\ bookings = SampleBookings
  /\ req = [p \in Handlers |-> Idle]
  /\ res = NoResponse
  /\ lastPatch = {}
  /\ createdEvents = {}
  /\ lastPull = [userId |-> Null, list |-> <<>>]
  /\ NoSessions

\* What the provider may list as events of the window: nothing, an event at
\* the time of a sample booking, and that one with an event at the time of
\* the booking a push creates
EventLists ==
  { NoEvents,
    << [id |-> "x1", start |-> At(StartDay, 14, 0), end |-> At(StartDay, 15, 0)] >>,
    << [id |-> "x1", start |-> At(StartDay, 14, 0), end |-> At(StartDay, 15, 0)],
       [id |-> "x2", start |-> OneSlot.startTime, end |-> OneSlot.endTime] >> }

\* Callbacks, pulls with refresh, pushes and disconnects of the demo user,
\* interleaved at every provider call
NextConcurrent ==
  \/ Respond
  \/ \E p \in Handlers, t \in ConnectionTypes :
       CallbackStart(p, FALSE, TRUE, <<"demo_user", t, "1">>)
  \/ \E p \in Handlers, first \in BOOLEAN : CallbackExchange(p, first, first, OneToken)
  \/ \E p \in Handlers : CallbackDiscovery(p, TRUE, OneCalendar)
  \/ Disconnect("demo_user")
  \/ \E p \in Handlers : SyncStart(p, "demo_user")
  \/ \E p \in Handlers, ans \in {<<"ok">>, <<"401", "Unauthorized">>} :
       SyncContacts(p, ans, <<>>)
  \/ \E p \in Handlers, events \in EventLists : SyncEvents(p, <<"ok">>, events)
  \/ \E p \in Handlers, first \in BOOLEAN : SyncRefresh(p, first, first, OneToken)
  \/ \E p \in Handlers :
       BookingStart(p, "demo_user", TRUE, Null,
                    [officeEventId |-> Null, officeEventUrl |-> Null], OneSlot)
  \/ \E p \in Handlers, ok \in BOOLEAN : BookingCreateEvent(p, ok, "ev1", Null)

SpecConcurrent == InitConcurrent /\ [][NextConcurrent]_vars

\* C14: a status of error is left only for connected, by a callback that
\* succeeded for that user, or for disconnected, by a disconnect of that
\* user; no step of a pull, a push or a token refresh leaves it.
C14_NoRecoveryFromError ==
  [][ \A u \in DOMAIN users :
        (users[u].officeConnectionStatus = "error"
           /\ users'[u].officeConnectionStatus # "error")
          => \/ /\ users'[u].officeConnectionStatus = "connected"
                /\ res.op = "none" /\ res'.op = "callback"
                /\ res'.ok /\ res'.userId = u
             \/ /\ users'[u].officeConnectionStatus = "disconnected"
                /\ res.op = "none" /\ res'.op = "disconnect"
                /\ res'.userId = u ]_vars

\* C14 witness: the last write was that of a successful token refresh, and
\* the status is error still
C14_Witness ==
  /\ lastPatch = DOMAIN RefreshPatch(NoToken)
  /\ users["demo_user"].officeConnectionStatus = "error"

\* C15: a callback that carries an error parameter, lacks code or state, or
\* whose state does not decode to a user id and a supported provider is
\* refused and leaves every user's stored state as it was.
C15_MalformedCallbackWritesNothing ==
  [][ ( /\ res.op = "none" /\ res'.op = "callback"
        /\ res'.why \in {"oauth_error", "missing_parameters", "invalid_state",
                         "unsupported"} )
        => (users' = users /\ ~res'.ok) ]_vars

\* C15 witness: a callback for an unsupported provider was refused while the
\* user named in its state is connected
C15_Witness ==
  /\ res.op = "callback" /\ res.why = "unsupported"
  /\ res.userId = "demo_user"
  /\ users["demo_user"].officeConnectionStatus = "connected"

\* A pull that got past its entry check read a user who was connected, with
\* an access token and a calendar id
C16_PullRunsOnlyWhenConnected ==
  \A p \in Procs :
    req[p].op = "sync"
      => /\ req[p].user.officeConnectionStatus = "connected"
         /\ req[p].user.officeAccessToken # Null
         /\ req[p].user.officeCalendarId # Null

\* A pull for a user whose connection is not valid is answered not-connected
\* in the step that starts it, and that step stores nothing and leaves no
\* handler waiting for the provider
C16_RefusedPullWritesNothing ==
  /\ (res.op = "none" /\ res'.op = "sync" /\ res'.why = "not_connected")
       => (~res'.ok /\ UNCHANGED <<users, contacts, req, lastPatch, lastPull>>)
  /\ \A p \in Procs :
       ( /\ SyncStart(p, "demo_user")
         /\ \/ users["demo_user"].officeConnectionStatus # "connected"
            \/ users["demo_user"].officeAccessToken = Null
            \/ users["demo_user"].officeCalendarId = Null )
         => (res'.op = "sync" /\ res'.why = "not_connected")

\* C16: syncUserData for a user whose connection is not valid fails with a
\* not-connected error before any provider call, creates no contact and
\* leaves the connection state as it was.
C16_InvalidConnectionPullFails ==
  []C16_PullRunsOnlyWhenConnected /\ [][C16_RefusedPullWritesNothing]_vars

\* C16 witness: a pull was refused for a user in error whose tokens are
\* still stored
C16_Witness ==
  /\ res.op = "sync" /\ res.why = "not_connected"
  /\ users[res.userId].officeConnectionStatus = "error"
  /\ users[res.userId].officeAccessToken # Null
  /\ users[res.userId].officeCalendarId # Null

\* C17: a token refresh that succeeds stores the access token the provider
\* issued and the refresh token it reissued, or else the refresh token the
\* refresh was made with; status, type and calendar id stay as stored.
C17_RefreshStoresNewTokenPair ==
  [][ \A p \in Procs, first \in BOOLEAN, second \in BOOLEAN, data \in TokenData :
        (SyncRefresh(p, first, second, data) /\ req'[p].pc = "contacts")
          => LET u == req[p].userId
             IN /\ users'[u].officeAccessToken = data.access_token
                /\ users'[u].officeRefreshToken =
                     IF data.refresh_token # Null THEN data.refresh_token
                     ELSE req[p].user.officeRefreshToken
                /\ users'[u].officeConnectionStatus = users[u].officeConnectionStatus
                /\ users'[u].officeConnectionType = users[u].officeConnectionType
                /\ users'[u].officeCalendarId = users[u].officeCalendarId ]_vars

\* C17 witness: a refresh succeeded, the stored access token is not the one
\* the pull started with and the stored refresh token is
C17_Witness ==
  /\ lastPatch = DOMAIN RefreshPatch(NoToken)
  /\ \E p \in Procs :
       /\ req[p].pc = "contacts" /\ req[p].depth = 1
       /\ users[req[p].userId].officeAccessToken # req[p].user.officeAccessToken
       /\ users[req[p].userId].officeRefreshToken = req[p].user.officeRefreshToken

\* C18: for either provider, with a client secret configured, a code
\* exchange the provider rejects with the secret and accepts without it
\* succeeds (the callback goes on to discovery).
C18_ExchangeRetriedAsPublicClient ==
  [][ \A p \in Procs, data \in TokenData :
        ( /\ CallbackExchange(p, FALSE, TRUE, data)
          /\ IF req[p].type = "microsoft"
             THEN env.MICROSOFT_CLIENT_SECRET ELSE env.GOOGLE_CLIENT_SECRET )
          => req'[p].pc = "discovery" ]_vars

\* C19: a callback that succeeds for provider P leaves the user connected to
\* P with the access token and the refresh token (null when none came) of
\* this handshake and the calendar id it discovered, whatever was stored.
C19_ConnectOverwritesConnection ==
  [][ \A p \in Procs, ok \in BOOLEAN, calendars \in CalendarLists :
        ( /\ CallbackDiscovery(p, ok, calendars)
          /\ res'.ok /\ req[p].userId \in DOMAIN users )
          => LET u == users'[req[p].userId]
             IN /\ u.officeConnectionStatus = "connected"
                /\ u.officeConnectionType = req[p].type
                /\ u.officeAccessToken = req[p].tokenResponse.accessToken
                /\ u.officeRefreshToken = req[p].tokenResponse.refreshToken
                /\ IF req[p].type = "google"
                   THEN u.officeCalendarId = "primary"
                   ELSE \E i \in 1..Len(calendars) :
                          /\ u.officeCalendarId = calendars[i].id
                          /\ \/ calendars[i].isDefaultCalendar
                             \/ (i = 1 /\ \A j \in 1..Len(calendars) :
                                            ~calendars[j].isDefaultCalendar) ]_vars

\* C19 witness: a callback succeeded with a handshake that brought no
\* refresh token, for a user who was connected before (a pull has run)
C19_Witness ==
  /\ res.op = "callback" /\ res.ok /\ res.userId = "demo_user"
  /\ lastPull.userId = "demo_user"
  /\ users["demo_user"].officeConnectionStatus = "connected"
  /\ users["demo_user"].officeRefreshToken = Null

\* ------------------------------------------- two callbacks for one user

\* The stored state of the demo user before any connection
FreshDemoUser == NewUser("demo@bookme.ai")

\* A callback for the demo user that arrives while nothing is stored for
\* their connection: what the call produces on its own is then known
CallbackStartFresh(p, type) ==
  /\ users["demo_user"] = FreshDemoUser
  /\ CallbackStart(p, FALSE, TRUE, <<"demo_user", type, "1">>)

\* Token answers of two handshakes
TwoTokens ==
  { [access_token |-> "at1", refresh_token |-> "rt1"],
    [access_token |-> "at2", refresh_token |-> Null] }

\* Two callbacks of the demo user, both started from the fresh state and
\* interleaved at every provider call
NextRace ==
  \/ Respond
  \/ \E p \in Handlers, t \in ConnectionTypes : CallbackStartFresh(p, t)
  \/ \E p \in Handlers, first \in BOOLEAN, data \in TwoTokens :
       CallbackExchange(p, first, first, data)
  \/ \E p \in Handlers, ok \in BOOLEAN : CallbackDiscovery(p, ok, OneCalendar)
  \/ Disconnect("demo_user")

SpecRace == InitConcurrent /\ [][NextRace]_vars

\* C20: when a callback started from the fresh state has made its write,
\* the stored state is the one that call produces on its own: after a
\* failure the fresh state with status error, after a success a state whose
\* five connection fields all come from that call.
C20_LastCallbackWriteWins ==
  (res.op = "callback" /\ res.userId = "demo_user")
    => /\ res.why \in {"exchange", "discovery"}
            => users["demo_user"] =
                 [FreshDemoUser EXCEPT !.officeConnectionStatus = "error"]
       /\ res.ok
            => /\ users["demo_user"].officeConnectionStatus = "connected"
               /\ lastPatch = ConnFields

\* C21: a user whose status is disconnected holds no access token, no
\* refresh token, no calendar id and no provider kind, whatever the
\* interleaving of disconnects, callbacks, pulls and token refreshes.
C21_DisconnectedHoldsNothing ==
  \A u \in DOMAIN users :
    users[u].officeConnectionStatus = "disconnected"
      => /\ users[u].officeAccessToken = Null
         /\ users[u].officeRefreshToken = Null
         /\ users[u].officeCalendarId = Null
         /\ users[u].officeConnectionType = Null

\* ------------------------------------------------------- the slot recommender
\* generateTimeSlotSuggestions exists in two versions in the repository:
\* server/services/openai.ts, which the routes import, and the unnamed
\* part_001.  Both are modelled; the version is an input of the handler.

\* The characters \d matches, with the value parseInt gives them
DigitOf ==
  [c \in {"0", "1", "2", "3", "4", "5", "6", "7", "8", "9"} |->
     CASE c = "0" -> 0 [] c = "1" -> 1 [] c = "2" -> 2 [] c = "3" -> 3
       [] c = "4" -> 4 [] c = "5" -> 5 [] c = "6" -> 6 [] c = "7" -> 7
       [] c = "8" -> 8 [] c = "9" -> 9]

Digits == DOMAIN DigitOf

\* parseInt of the digits s[i], ..., s[i + l - 1]; 0 for no digit, which is
\* what `timeMatch[2] ? parseInt(timeMatch[2]) : 0` gives for '' and for
\* undefined
parseInt(s, i, l) ==
  IF l = 0 THEN 0
  ELSE IF l = 1 THEN DigitOf[s[i]]
  ELSE 10 * DigitOf[s[i]] + DigitOf[s[i + 1]]

\* The least element of a set of numbers, or none when it is empty
Least(S, none) ==
  IF S = {} THEN none ELSE CHOOSE j \in S : \A j2 \in S : j <= j2

\* The position of the first character at or after k that \s does not match
\* (Len(s) + 1 when there is none)
SkipSpaces(s, k) == Least({ j \in k..Len(s) : s[j] # " " }, Len(s) + 1)

\* (am|pm) with the i flag at position k
MeridiemAt(s, k) ==
  /\ k + 1 <= Len(s)
  /\ LowerChar(s[k]) \in {"a", "p"}
  /\ LowerChar(s[k + 1]) = "m"

\* /(\d{1,2}):?(\d{0,2})?\s*(am|pm)/i applied at position i with l1 digits
\* in group 1, c colons and l2 digits in group 2
MatchesAt(s, i, l1, c, l2) ==
  /\ i + l1 - 1 <= Len(s)
  /\ \A x \in i..(i + l1 - 1) : s[x] \in Digits
  /\ c = 1 => (i + l1 <= Len(s) /\ s[i + l1] = ":")
  /\ i + l1 + c + l2 - 1 <= Len(s)
  /\ \A x \in (i + l1 + c)..(i + l1 + c + l2 - 1) : s[x] \in Digits
  /\ MeridiemAt(s, SkipSpaces(s, i + l1 + c + l2))

\* The ways the expression matches s
TimeMatches(s) ==
  { m \in [i : 1..Len(s), l1 : 1..2, c : 0..1, l2 : 0..2] :
      MatchesAt(s, m.i, m.l1, m.c, m.l2) }

\* The order in which a backtracking matcher tries them: leftmost start,
\* then the greedy choice for each quantifier from left to right
MatchRank(m) == m.i * 12 + (2 - m.l1) * 6 + (1 - m.c) * 3 + (2 - m.l2)

\* The groups of a match whose meridiem is at k, converted as the code
\* converts them
Groups(s, m, k) ==
  [found |-> TRUE,
   hours |-> parseInt(s, m.i, m.l1),
   minutes |-> parseInt(s, m.i + m.l1 + m.c, m.l2),
   ampm |-> IF LowerChar(s[k]) = "a" THEN "am" ELSE "pm"]

\* The groups of match m
GroupsOf(s, m) == Groups(s, m, SkipSpaces(s, m.i + m.l1 + m.c + m.l2))

\* The match a backtracking matcher finds first among all
FirstMatch(s, all) ==
  IF all = {}
  THEN [found |-> FALSE, hours |-> 0, minutes |-> 0, ampm |-> "am"]
  ELSE GroupsOf(s, CHOOSE m \in all : \A m2 \in all : MatchRank(m) <= MatchRank(m2))

\* String.prototype.match: whether there is a match (the code's test of
\* timeMatch against null) and the groups of the first one
timeMatch(s) == FirstMatch(s, TimeMatches(s))

\* The first one or two digits from position i on (none when i is past the
\* end)
NumberAt(s, i) ==
  IF i > Len(s) THEN [found |-> FALSE, hours |-> 0]
  ELSE [found |-> TRUE,
        hours |-> IF i + 1 <= Len(s) /\ s[i + 1] \in Digits
                  THEN parseInt(s, i, 2) ELSE parseInt(s, i, 1)]

\* /(\d{1,2})/ of part_001's fallback
numberMatch(s) ==
  NumberAt(s, Least({ i \in 1..Len(s) : s[i] \in Digits }, Len(s) + 1))

\* The am/pm arithmetic both versions apply to a match
MeridiemHours(m) ==
  IF m.ampm = "pm" /\ m.hours # 12 THEN m.hours + 12
  ELSE IF m.ampm = "am" /\ m.hours = 12 THEN 0
  ELSE m.hours

\* `if (timeMatch) { ... }`: the time of a match, else what hours and
\* minutes were before
TimeOfMatch(m, otherwise) ==
  IF m.found THEN [hours |-> MeridiemHours(m), minutes |-> m.minutes]
  ELSE otherwise

\* part_001's reading of a bare number as an hour
TimeOfNumber(n, otherwise) ==
  IF n.found
  THEN [hours |-> IF n.hours >= 6 /\ n.hours <= 11 THEN n.hours
                  ELSE IF n.hours >= 1 /\ n.hours <= 5 THEN n.hours + 12
                  ELSE n.hours,
        minutes |-> 0]
  ELSE otherwise

\* openai.ts, the time: timeStr is the lower-case preferred_time
ParseLowered(timeStr, preferred_time) ==
  IF includes(timeStr, <<"1","2","p","m">>)
       \/ includes(timeStr, <<"1","2",":","0","0"," ","p","m">>)
       \/ includes(timeStr, <<"n","o","o","n">>)
  THEN [hours |-> 12, minutes |-> 0]
  ELSE IF includes(timeStr, <<"1","2","a","m">>)
       \/ includes(timeStr, <<"1","2",":","0","0"," ","a","m">>)
       \/ includes(timeStr, <<"m","i","d","n","i","g","h","t">>)
  THEN [hours |-> 0, minutes |-> 0]
  ELSE IF includes(timeStr, <<"1","1","a","m">>)
       \/ includes(timeStr, <<"1","1",":","0","0"," ","a","m">>)
  THEN [hours |-> 11, minutes |-> 0]
  ELSE IF includes(timeStr, <<"1","p","m">>)
       \/ includes(timeStr, <<"1",":","0","0"," ","p","m">>)
  THEN [hours |-> 13, minutes |-> 0]
  ELSE IF includes(timeStr, <<"2","p","m">>)
       \/ includes(timeStr, <<"2",":","0","0"," ","p","m">>)
  THEN [hours |-> 14, minutes |-> 0]
  ELSE TimeOfMatch(timeMatch(preferred_time), [hours |-> 12, minutes |-> 0])

\* openai.ts: hours and minutes from intent.preferred_time.  An intent
\* without the field is one with the empty string: `?.toLowerCase() || ''`
\* and `?.match(...)` give both the same values.
ParseTime(preferred_time) ==
  ParseLowered(toLowerCase(preferred_time), preferred_time)

\* part_001, the time: timeStr is the lower-case preferred_time
ParseLoweredPart001(timeStr, preferred_time) ==
  IF includes(timeStr, <<"1","1","a","m">>)
       \/ includes(timeStr, <<"1","1",":","0","0"," ","a","m">>)
  THEN [hours |-> 11, minutes |-> 0]
  ELSE IF includes(timeStr, <<"2","p","m">>)
       \/ includes(timeStr, <<"2",":","0","0"," ","p","m">>)
  THEN [hours |-> 14, minutes |-> 0]
  ELSE TimeOfMatch(timeMatch(preferred_time),
                   TimeOfNumber(numberMatch(preferred_time),
                                [hours |-> 14, minutes |-> 0]))

\* part_001: hours and minutes from a preferred_time that is not empty
ParseTimePart001(preferred_time) ==
  ParseLoweredPart001(toLowerCase(preferred_time), preferred_time)

\* A Date is its number of minutes since the start of Sunday 1 September
\* 2024, in the time zone of the process (taken to have no clock change in
\* the months modelled): September, October, November
MonthLengths == <<30, 31, 30>>

MinutesPerDay == 1440

RECURSIVE MonthStart(_)
\* The number of days before the first day of month m
MonthStart(m) == IF m = 1 THEN 0 ELSE MonthStart(m - 1) + MonthLengths[m - 1]

DayOf(t) == t \div MinutesPerDay

MonthOf(t) ==
  CHOOSE m \in 1..Len(MonthLengths) :
    MonthStart(m) <= DayOf(t) /\ DayOf(t) < MonthStart(m) + MonthLengths[m]

\* Date.prototype.getDay: 0 is Sunday
getDay(t) == DayOf(t) % 7

\* Date.prototype.getDate: the day of the month
getDate(t) == DayOf(t) - MonthStart(MonthOf(t)) + 1

getHours(t) == (t % MinutesPerDay) \div 60

getMinutes(t) == t % 60

\* Date.prototype.setDate: the day of the month within the month the Date
\* is in; a value past the end of that month runs into the next ones
setDate(t, dayOfMonth) ==
  (MonthStart(MonthOf(t)) + dayOfMonth - 1) * MinutesPerDay + (t % MinutesPerDay)

\* Date.prototype.setHours(hours, minutes, 0, 0)
setHours(t, hours, minutes) == DayOf(t) * MinutesPerDay + hours * 60 + minutes

\* Date.prototype.setMinutes
setMinutes(t, minutes) == t - getMinutes(t) + minutes

\* (mutant) the weekday of today is taken for today
DaysUntilSameDay(target, currentDay) == (target - currentDay + 7) % 7

\* `let daysUntilX = (X - currentDay + 7) % 7; if (daysUntilX === 0)
\* daysUntilX = 7;`
DaysUntil(target, currentDay) ==
  IF (target - currentDay + 7) % 7 = 0 THEN 7 ELSE (target - currentDay + 7) % 7

\* The names the day is looked up by, as char tuples
Tomorrow == <<"t","o","m","o","r","r","o","w">>
Sunday == <<"s","u","n","d","a","y">>
Monday == <<"m","o","n","d","a","y">>
Tuesday == <<"t","u","e","s","d","a","y">>
Wednesday == <<"w","e","d","n","e","s","d","a","y">>
Thursday == <<"t","h","u","r","s","d","a","y">>
Friday == <<"f","r","i","d","a","y">>
Saturday == <<"s","a","t","u","r","d","a","y">>
Satru == <<"s","a","t","r","u">>

\* openai.ts: the number of days `now.getDate()` is increased by
DayOffset(preferred_day, now) ==
  LET dayStr == toLowerCase(preferred_day)
      has(n) == includes(dayStr, n)
      currentDay == getDay(now)
  IN IF has(Tomorrow) THEN 1
     ELSE IF has(Monday) THEN DaysUntil(1, currentDay)
     ELSE IF has(Tuesday) THEN DaysUntil(2, currentDay)
     ELSE IF has(Wednesday) THEN DaysUntil(3, currentDay)
     ELSE IF has(Thursday) THEN DaysUntil(4, currentDay)
     ELSE IF has(Friday) THEN DaysUntil(5, currentDay)
     ELSE IF has(Saturday) THEN DaysUntil(6, currentDay)
     ELSE IF has(Sunday) THEN DaysUntil(0, currentDay)
     ELSE 1

\* part_001: the number of days `now.getDate()` is increased by
DayOffsetPart001(preferred_day, now) ==
  LET dayStr == toLowerCase(preferred_day)
      has(n) == includes(dayStr, n)
      currentDay == getDay(now)
  IN IF has(Tomorrow) THEN 1
     ELSE IF has(Tuesday) THEN DaysUntil(2, currentDay)
     ELSE IF has(Saturday) \/ has(Satru) THEN DaysUntil(6, currentDay)
     ELSE 1

\* The slot that starts at start: `endTime.setMinutes(endTime.getMinutes()
\* + intent.duration_minutes)`
SlotFrom(start, duration_minutes) ==
  << [start |-> start,
      end |-> setMinutes(start, getMinutes(start) + duration_minutes)] >>

\* `suggestedTime.setHours(hours, minutes, 0, 0)` with the time parsed
AtTime(date, time) == setHours(date, time.hours, time.minutes)

\* (mutant) a start at which a booking is under way is moved a day on
FreeStart(start, duration_minutes, existingBookings) ==
  IF \E i \in 1..Len(existingBookings) :
       /\ existingBookings[i].startTime < start + duration_minutes
       /\ start < existingBookings[i].endTime
  THEN start + MinutesPerDay ELSE start

\* (mutant) a slot that overlaps an existing booking is moved a day on
generateTimeSlotSuggestionsAvoiding(intent, existingBookings, now, created) ==
  SlotFrom(FreeStart(AtTime(setDate(created, getDate(now)
                                       + DayOffset(intent.preferred_day, now)),
                            ParseTime(intent.preferred_time)),
                     intent.duration_minutes, existingBookings),
           intent.duration_minutes)

\* openai.ts generateTimeSlotSuggestions.  now and created are the values
\* of the two `new Date()` of its first lines; the label, a rendering of
\* start, is left out.
generateTimeSlotSuggestions(intent, existingBookings, now, created) ==
  SlotFrom(AtTime(setDate(created, getDate(now)
                             + DayOffset(intent.preferred_day, now)),
                  ParseTime(intent.preferred_time)),
           intent.duration_minutes)

\* part_001 generateTimeSlotSuggestions for an intent with a preferred
\* time: setHours comes before setDate there
generateTimeSlotSuggestionsPart001(intent, existingBookings, now, created) ==
  SlotFrom(setDate(AtTime(created, ParseTimePart001(intent.preferred_time)),
                   getDate(now) + DayOffsetPart001(intent.preferred_day, now)),
           intent.duration_minutes)

\* storage.getBookings(userId)
getBookings(bs, userId) == SelectSeq(bs, LAMBDA b : b.userId = userId)

Versions == {"openai.ts", "part_001"}

\* POST /api/ai/parse-booking.  outcome: the body has no message, the
\* intent extraction threw, or it returned intent.  part_001 asks the
\* completion service when the intent has no preferred time: that path is
\* not a step of this model.
ParseBooking(u, version, outcome, intent, now, created) ==
  /\ Ready
  /\ u \in DOMAIN users
  /\ version = "part_001" => intent.preferred_time # <<>>
  /\ res' = IF outcome = "no_message"
            THEN Response("parse-booking", u, FALSE, "message_required")
            ELSE IF outcome = "parse_failed"
            THEN Response("parse-booking", u, FALSE, "parse_failed")
            ELSE Response("parse-booking", u, TRUE, "none") @@
                 [version |-> version, intent |-> intent, now |-> now,
                  created |-> created,
                  timeSlots |->
                    IF version = "openai.ts"
                    THEN generateTimeSlotSuggestions(
                           intent, getBookings(bookings, u), now, created)
                    ELSE generateTimeSlotSuggestionsPart001(
                           intent, getBookings(bookings, u), now, created)]
  /\ UNCHANGED <<sessionVars, env, users, contacts, bookings, req, lastPatch, createdEvents,
                 lastPull>>

\* ------------------------------------------------ inputs of the recommender

DigitChar == <<"0", "1", "2", "3", "4", "5", "6", "7", "8", "9">>

\* A number below 100 as it is written, and written with two digits
Number(n) ==
  IF n < 10 THEN <<DigitChar[n + 1]>>
  ELSE <<DigitChar[(n \div 10) + 1], DigitChar[(n % 10) + 1]>>

TwoDigits(n) == <<DigitChar[(n \div 10) + 1], DigitChar[(n % 10) + 1]>>

NoMinutes == -1

\* The phrasing "<H>[:MM] am|pm": H, the minutes or NoMinutes, whether a
\* space precedes the meridiem, and "a" or "p"
Phrase(H, MM, space, meridiem) ==
  Number(H) \o (IF MM = NoMinutes THEN <<>> ELSE <<":">> \o TwoDigits(MM))
            \o (IF space THEN <<" ">> ELSE <<>>) \o <<meridiem, "m">>

Noon == <<"n","o","o","n">>
Midnight == <<"m","i","d","n","i","g","h","t">>

\* Every canonical phrasing of a time
TimePhrases ==
  { Phrase(H, MM, space, meridiem) :
      H \in 1..12, MM \in {NoMinutes} \cup 0..59, space \in BOOLEAN,
      meridiem \in {"a", "p"} } \cup {Noon, Midnight}

\* Times that are none of the canonical phrasings: none given, words, a
\* 24-hour time, a bare number
OtherTimes ==
  { <<>>, <<"a","s","a","p">>, <<"l","a","t","e","r">>,
    <<"1","5",":","3","0">>, <<"a","t"," ","3">> }

\* A few times for the requests that vary the day and the clock
FewTimes ==
  { <<"2","p","m">>, <<"1","2",":","3","0"," ","A","M">>, <<>> }

\* Days an intent may name: none, tomorrow, the seven weekdays, one in
\* capitals, one inside a phrase, a misspelt one, and no day at all
DayPhrases ==
  { <<>>, Tomorrow, Sunday, Monday, Tuesday, Wednesday, Thursday, Friday,
    Saturday, <<"T","u","e","s","d","a","y">>,
    <<"n","e","x","t"," ">> \o Friday,
    <<"s","a","t","r","u","d","a","y">>,
    <<"s","o","o","n">> }

\* Times of a call: the seven days Tuesday 24 to Monday 30 September, at
\* the start, in the middle and in the last minute of the day
Nows ==
  { d * MinutesPerDay + m : d \in 23..29, m \in {0, 13 * 60 + 59, 23 * 60 + 59} }

Durations == {30, 60}

Intent(day, time, duration) ==
  [preferred_day |-> day, preferred_time |-> time, duration_minutes |-> duration]

\* The second `new Date()` is read in the same minute as the first or in
\* the next; the next minute is another day only in the last minute of one
Ticks(now) == IF now % MinutesPerDay = MinutesPerDay - 1 THEN 0..1 ELSE {0}

\* The recommender reads nothing of process.env: one configuration
InitSlots == Init /\ env.GOOGLE_CLIENT_ID

\* Requests to the recommender alone: every time phrasing at one time of
\* call, and every day at every time of call
NextSlots ==
  \/ Respond
  \/ /\ Ready
     /\ \E version \in Versions, time \in TimePhrases \cup OtherTimes :
          ParseBooking("demo_user", version, "ok", Intent(Wednesday, time, 30),
                       24 * MinutesPerDay + 600, 24 * MinutesPerDay + 600)
  \/ /\ Ready
     /\ \E version \in Versions, outcome \in {"no_message", "parse_failed"} :
          ParseBooking("demo_user", version, outcome, Intent(Wednesday, Noon, 30),
                       24 * MinutesPerDay + 600, 24 * MinutesPerDay + 600)
  \/ /\ Ready
     /\ \E version \in Versions, day \in DayPhrases, time \in FewTimes,
           duration \in Durations, now \in Nows :
          \E tick \in Ticks(now) :
            ParseBooking("demo_user", version, "ok", Intent(day, time, duration),
                         now, now + tick)

SpecSlots == InitSlots /\ [][NextSlots]_vars

\* C22: every slot the recommender returns, in either version, for any day
\* and time it is given and any day of the week and time of day of the
\* call, starts strictly later than the time of the call.
C22_SlotStartsInTheFuture ==
  (res.op = "parse-booking" /\ res.ok)
    => \A i \in 1..Len(res.timeSlots) : res.timeSlots[i].start > res.now

\* C22 witness: a slot asked for Tuesday 2pm in the last minute of a Tuesday
C22_Witness ==
  /\ res.op = "parse-booking" /\ res.ok
  /\ res.version = "openai.ts"
  /\ res.intent.preferred_day = Tuesday
  /\ res.intent.preferred_time = <<"2","p","m">>
  /\ getDay(res.now) = 2 /\ getHours(res.now) = 23
  /\ res.timeSlots[1].start > res.now

\* What a canonical phrasing denotes, read off its parts: the hour before
\* the colon or the meridiem, the two digits after the colon, the meridiem
CanonicalTime(s) ==
  IF s = Noon THEN [hours |-> 12, minutes |-> 0]
  ELSE IF s = Midnight THEN [hours |-> 0, minutes |-> 0]
  ELSE LET l == IF s[2] \in Digits THEN 2 ELSE 1
           H == IF l = 2 THEN 10 * DigitOf[s[1]] + DigitOf[s[2]] ELSE DigitOf[s[1]]
           MM == IF s[l + 1] = ":"
                 THEN 10 * DigitOf[s[l + 2]] + DigitOf[s[l + 3]] ELSE 0
           pm == s[Len(s) - 1] = "p"
       IN [hours |-> IF pm THEN (IF H = 12 THEN 12 ELSE H + 12)
                     ELSE (IF H = 12 THEN 0 ELSE H),
           minutes |-> MM]

\* C24: for every phrasing "<H>[:MM] am|pm" with H in 1..12 and MM in
\* 00..59, and for noon and midnight, the slot returned starts at the
\* 24-hour time the phrasing denotes.
C24_CanonicalTimeParsed ==
  (res.op = "parse-booking" /\ res.ok /\ res.intent.preferred_time \in TimePhrases)
    => /\ getHours(res.timeSlots[1].start) = CanonicalTime(res.intent.preferred_time).hours
       /\ getMinutes(res.timeSlots[1].start) = CanonicalTime(res.intent.preferred_time).minutes

\* The weekday names in the order of Date.prototype.getDay
WeekdayNames == <<Sunday, Monday, Tuesday, Wednesday, Thursday, Friday, Saturday>>

\* C23: for an intent that names a weekday W and gives a canonical time and
\* a duration d, exactly one slot is returned; it starts on weekday W,
\* between 1 and 7 days after the day of the call, at the hour and minute
\* the time denotes, and ends d minutes after it starts.
C23_NextWeekdayAtParsedTime ==
  \A w \in 1..7 :
    (/\ res.op = "parse-booking" /\ res.ok
     /\ toLowerCase(res.intent.preferred_day) = WeekdayNames[w]
     /\ res.intent.preferred_time \in TimePhrases)
      => /\ Len(res.timeSlots) = 1
         /\ getDay(res.timeSlots[1].start) = w - 1
         /\ DayOf(res.timeSlots[1].start) - DayOf(res.now) \in 1..7
         /\ getHours(res.timeSlots[1].start)
              = CanonicalTime(res.intent.preferred_time).hours
         /\ getMinutes(res.timeSlots[1].start)
              = CanonicalTime(res.intent.preferred_time).minutes
         /\ res.timeSlots[1].end
              = res.timeSlots[1].start + res.intent.duration_minutes

\* A day that names no weekday, not even misspelt
NamesNoWeekday(day) ==
  /\ \A w \in 1..7 : ~includes(toLowerCase(day), WeekdayNames[w])
  /\ ~includes(toLowerCase(day), Satru)

\* C25: a time that is none of the canonical phrasings gives a slot at
\* 14:00, and a day that is absent or names no weekday gives a slot on the
\* day after the call.
C25_DefaultsAre1400AndTomorrow ==
  (res.op = "parse-booking" /\ res.ok)
    => /\ res.intent.preferred_time \in OtherTimes
            => /\ getHours(res.timeSlots[1].start) = 14
               /\ getMinutes(res.timeSlots[1].start) = 0
       /\ NamesNoWeekday(res.intent.preferred_day)
            => DayOf(res.timeSlots[1].start) = DayOf(res.now) + 1

\* ------------------------------------------- offers and booking creation

\* The time of the calls of this part: Wednesday 25 September, 10:00
OfferNow == At(StartDay + 1, 10, 0)

\* Starts and ends a POST /api/bookings body may carry: the slot offered
\* for tomorrow 2pm, another day's hour, an end equal to the start, an end
\* before the start
BodySlots ==
  { [startTime |-> At(StartDay + 2, 14, 0), endTime |-> At(StartDay + 2, 15, 0)],
    [startTime |-> At(StartDay + 3, 9, 0), endTime |-> At(StartDay + 3, 10, 0)],
    [startTime |-> At(StartDay + 3, 9, 0), endTime |-> At(StartDay + 3, 9, 0)],
    [startTime |-> At(StartDay + 3, 9, 0), endTime |-> At(StartDay + 3, 8, 0)] }

\* What a body may give as status: none, two lifecycle values and a word
\* that is none
StatusInputs == {Null, "confirmed", "cancelled", "done"}

\* Slot requests, booking creations and status updates of the demo user
NextOffer ==
  \/ Respond
  \/ \E version \in Versions, day \in {Tomorrow, Friday}, duration \in {60, 0} :
       ParseBooking("demo_user", version, "ok",
                    Intent(day, <<"2","p","m">>, duration), OfferNow, OfferNow)
  \/ \E p \in Procs, valid \in BOOLEAN, status \in StatusInputs, times \in BodySlots :
       BookingStart(p, "demo_user", valid, status,
                    [officeEventId |-> Null, officeEventUrl |-> Null], times)
  \/ \E id \in 1..MaxBookings, status \in StatusInputs :
       UpdateBookingStatus("demo_user", id, status)

SpecOffer == Init /\ [][NextOffer]_vars

\* C26: every booking stored has its end strictly after its start (a
\* creation request whose end is at or before its start stores nothing).
C26_EndAfterStart ==
  \A i \in 1..Len(bookings) : bookings[i].endTime > bookings[i].startTime

\* C27: the status of every booking is scheduled, confirmed or cancelled,
\* after any sequence of creations and status updates.
C27_StatusInLifecycle ==
  \A i \in 1..Len(bookings) :
    bookings[i].status \in {"scheduled", "confirmed", "cancelled"}

\* Two intervals share an instant that is not an end point of both
Overlaps(start1, end1, start2, end2) == start1 < end2 /\ start2 < end1

\* C28: a slot offered to a user overlaps none of the bookings of that user
\* that are not cancelled.
C28_OfferedSlotIsFree ==
  (res.op = "parse-booking" /\ res.ok)
    => \A i \in 1..Len(res.timeSlots), j \in 1..Len(bookings) :
         (bookings[j].userId = res.userId /\ bookings[j].status # "cancelled")
           => ~Overlaps(res.timeSlots[i].start, res.timeSlots[i].end,
                        bookings[j].startTime, bookings[j].endTime)

PullStep ==
  \/ res.op = "none" /\ res'.op = "sync"
  \/ \E p \in DOMAIN req :
       req'[p] # req[p] /\ (req[p].op = "sync" \/ req'[p].op = "sync")

FrameContactLists ==
  { <<>>, << [hasName |-> TRUE, displayName |-> <<"A", "n", "n">>, id |-> "x1"] >> }

\* The handler slot that runs the requests of each user: one request of a
\* user is in flight at a time, next to one of the other user
SlotOf == [demo_user |-> "p1", user_1 |-> "p2"]

\* Both users exist (the second has logged in) and every provider is
\* configured
InitFrame ==
  /\ env = [MICROSOFT_CLIENT_ID |-> TRUE, MICROSOFT_CLIENT_SECRET |-> TRUE,
            GOOGLE_CLIENT_ID |-> TRUE, GOOGLE_CLIENT_SECRET |-> TRUE]
  /\ AnnLoggedIn
  /\ contacts = SampleContacts
  /\ bookings = SampleBookings
  /\ req = [p \in Handlers |-> Idle]
  /\ res = NoResponse
  /\ lastPatch = {}
  /\ createdEvents = {}
  /\ lastPull = [userId |-> Null, list |-> <<>>]

\* Connections, pulls with refresh, pushes and disconnects of two users,
\* interleaved at every provider call
NextFrame ==
  \/ Respond
  \/ \E u \in UserIds : CallbackStart(SlotOf[u], FALSE, TRUE, <<u, "microsoft", "1">>)
  \/ \E p \in Handlers, first \in BOOLEAN : CallbackExchange(p, first, first, OneToken)
  \/ \E p \in Handlers : CallbackDiscovery(p, TRUE, OneCalendar)
  \/ \E u \in UserIds : Disconnect(u)
  \/ \E u \in UserIds : SyncStart(SlotOf[u], u)
  \/ \E p \in Handlers, list \in FrameContactLists : SyncContacts(p, <<"ok">>, list)
  \/ \E p \in Handlers, ans \in {<<"ok">>, <<"401", "Unauthorized">>} :
       SyncEvents(p, ans, NoEvents)
  \/ \E p \in Handlers : SyncRefresh(p, FALSE, FALSE, OneToken)
  \/ \E u \in UserIds :
       BookingStart(SlotOf[u], u, TRUE, Null,
                    [officeEventId |-> Null, officeEventUrl |-> Null], OneSlot)
  \/ \E p \in Handlers, ok \in BOOLEAN : BookingCreateEvent(p, ok, "ev1", Null)

SpecFrame == InitFrame /\ [][NextFrame]_vars

\* The users a step acts for: the user of the response it sends and the
\* user of every handler slot it moves
ActingUsers ==
  ({res'.userId} \cup UNION { {req[p].userId, req'[p].userId} :
                               p \in {q \in DOMAIN req : req'[q] # req[q]} })
    \ {Null}

\* MemStorage.getContacts(userId): the contacts of the user, in id order
getContacts(cs, userId) == SelectSeq(cs, LAMBDA c : c.userId = userId)

\* C31: a step of a connection, pull or booking operation acts for one user
\* at most, and leaves the connection state, the contacts and the bookings
\* of every other user as they were, whatever else is in flight.
C31_OtherUsersUntouched ==
  [][ /\ Cardinality(ActingUsers) <= 1
      /\ \A v \in DOMAIN users \ ActingUsers :
           /\ users'[v] = users[v]
           /\ getContacts(contacts', v) = getContacts(contacts, v)
           /\ getBookings(bookings', v) = getBookings(bookings, v) ]_vars

\* C31 witness: a disconnect of the second user was answered while the demo
\* user is connected and a pull of the demo user is in flight
C31_Witness ==
  /\ res.op = "disconnect" /\ res.userId = "user_1"
  /\ users["demo_user"].officeConnectionStatus = "connected"
  /\ \E p \in Handlers : req[p].op = "sync" /\ req[p].userId = "demo_user"

\* ------------------------------------- the token a provider call carries

\* The access token the provider calls of the handler with locals r carry:
\* `user.officeAccessToken!` of the user object the handler holds
AccessTokenSent(r) == r.user.officeAccessToken

\* C32: when a pull hit an authorization failure and the token refresh
\* succeeded, the retried pull calls the provider with the access token the
\* refresh has just stored.
C32_RetryUsesRefreshedToken ==
  [][ \A p \in Procs, first \in BOOLEAN, second \in BOOLEAN, data \in TokenData :
        (SyncRefresh(p, first, second, data) /\ req'[p].pc = "contacts")
          => AccessTokenSent(req'[p]) = users'[req[p].userId].officeAccessToken ]_vars

\* ------------------------------------------- which provider issued what

\* What the token endpoint of each provider issues: tokens of one provider
\* are not tokens of the other
IssuedBy ==
  [microsoft |-> [access_token |-> "ms_at", refresh_token |-> "ms_rt"],
   google |-> [access_token |-> "g_at", refresh_token |-> "g_rt"]]

\* The calendar id the discovery of each provider yields
CalendarOf == [microsoft |-> "cal1", google |-> "primary"]

\* Callbacks for either provider, pulls with refresh and disconnects of the
\* demo user in two handler slots; every token request is answered by the
\* provider it was sent to
NextIssuer ==
  \/ Respond
  \/ \E p \in Handlers, t \in ConnectionTypes :
       CallbackStart(p, FALSE, TRUE, <<"demo_user", t, "1">>)
  \/ \E p \in Handlers :
       /\ req[p].pc = "exchange"
       /\ CallbackExchange(p, TRUE, TRUE, IssuedBy[req[p].type])
  \/ \E p \in Handlers : CallbackDiscovery(p, TRUE, OneCalendar)
  \/ Disconnect("demo_user")
  \/ \E p \in Handlers : SyncStart(p, "demo_user")
  \/ \E p \in Handlers, ans \in {<<"ok">>, <<"401", "Unauthorized">>} :
       SyncContacts(p, ans, <<>>)
  \/ \E p \in Handlers : SyncEvents(p, <<"ok">>, NoEvents)
  \/ \E p \in Handlers :
       /\ req[p].pc = "refresh"
       /\ SyncRefresh(p, TRUE, TRUE, IssuedBy[req[p].user.officeConnectionType])

SpecIssuer == InitConcurrent /\ [][NextIssuer]_vars

\* C33: a user with status connected holds an access token, a refresh token
\* and a calendar id that the provider named by the stored type issued
\* (that they come from one connection is more than this asks).
C33_ConnectedFieldsFromOneProvider ==
  \A u \in DOMAIN users :
    users[u].officeConnectionStatus = "connected"
      => /\ users[u].officeConnectionType \in ConnectionTypes
         /\ users[u].officeAccessToken =
              IssuedBy[users[u].officeConnectionType].access_token
         /\ users[u].officeRefreshToken =
              IssuedBy[users[u].officeConnectionType].refresh_token
         /\ users[u].officeCalendarId = CalendarOf[users[u].officeConnectionType]

\* C34: the outcome answered with a created booking is success exactly when
\* a provider event was created for it: after a createEvent that succeeded
\* for the booking the outcome is success, and with an outcome of success
\* the stored booking holds the event id createEvent returned.
C34_SuccessIffEventCreated ==
  (res.op = "booking" /\ res.bookingId # 0)
    => /\ (\E e \in EventIds : <<res.bookingId, e>> \in createdEvents)
            => res.sync = "success"
       /\ res.sync = "success"
            => /\ res.eventId # Null
               /\ bookings[res.bookingId].officeEventId = res.eventId

\* Handler slot p ends the step by sending the provider a request that
\* carries the access token: a contact listing, an event listing or a
\* createEvent
SendsAccessToken(p) ==
  /\ req'[p] # req[p]
  /\ req'[p].pc \in {"contacts", "events", "createEvent"}

\* C35: a request that carries a user's access token is sent to the
\* provider only while the stored status of that user is connected, also by
\* a handler that started before a disconnect or an error.
C35_ProviderCallsOnlyWhileConnected ==
  [][ \A p \in Handlers :
        SendsAccessToken(p)
          => users'[req'[p].userId].officeConnectionStatus = "connected" ]_vars

\* ----------------------------------------- callbacks nobody asked for

\* GET /api/office/callback is a public route: requests for it arrive
\* although POST /api/office/connect was never called, for any user or
\* provider
NextUnsolicited ==
  \/ Respond
  \/ \E p \in Procs, error \in BOOLEAN, code \in BOOLEAN, st \in CallbackStates :
       CallbackStart(p, error, code, st)
  \/ \E p \in Procs, first \in BOOLEAN, second \in BOOLEAN, data \in TokenData :
       CallbackExchange(p, first, second, data)
  \/ \E p \in Procs, ok \in BOOLEAN, calendars \in CalendarLists :
       CallbackDiscovery(p, ok, calendars)

SpecUnsolicited == Init /\ [][NextUnsolicited]_vars

\* C36: while no authorization URL has been issued for any user or
\* provider, no callback changes the connection state of a user: every
\* user is as findOrCreateUser made them.
C36_NoConnectionWithoutAuthUrl ==
  \A u \in DOMAIN users : users[u] = NewUser(users[u].email)

\* C37: a pull that ends in an error has imported no contact: when a
\* handler answers a pull with a failure, the contact loop it ran last had
\* created nothing (what a loop creates stays stored).
C37_FailedPullImportsNothing ==
  [][ \A p \in Procs :
        ( /\ req[p].op = "sync" /\ req'[p] = Idle
          /\ res'.op = "sync" /\ ~res'.ok )
          => req[p].created = 0 ]_vars

\* C39: a status update that user u requests (the request carries a
\* status) changes a booking only if u owns it, and then no other booking;
\* for a booking of another user or an id that names none it is answered
\* not found and every booking is as it was.
C39_StatusUpdateOnlyByOwner ==
  [][ (res.op = "none" /\ res'.op = "status" /\ res'.why # "status_required")
        => LET u == res'.userId
               id == res'.bookingId
           IN IF id \in 1..Len(bookings) /\ bookings[id].userId = u
              THEN /\ Len(bookings') = Len(bookings)
                   /\ \A j \in 1..Len(bookings) : j # id => bookings'[j] = bookings[j]
              ELSE /\ bookings' = bookings
                   /\ ~res'.ok /\ res'.why = "not_found" ]_vars

\* C39 witness: the demo user's update of a booking the second user owns
\* was answered not found, and the booking is scheduled still
C39_Witness ==
  /\ res.op = "status" /\ res.userId = "demo_user" /\ res.why = "not_found"
  /\ res.bookingId \in 1..Len(bookings)
  /\ bookings[res.bookingId].userId = "user_1"
  /\ bookings[res.bookingId].status = "scheduled"

\* ----------------------------------------------------------- sessions

\* What a request may carry after 'Bearer ': nothing, a token of a session
\* created, or one that generateSessionToken never returned
BearerTokens == NoBearer..(MaxSessions + 1)

\* Logins, requests that carry a token, logouts and the passing of time
NextSession ==
  \/ Respond
  \/ \E email \in Emails : Login(email)
  \/ \E token \in BearerTokens : GetMe(token)
  \/ \E token \in BearerTokens : Logout(token)
  \/ Tick

SpecSession == Init /\ [][NextSession]_vars

\* Token t was issued and authenticates no more: its session was deleted
\* or now is past its expiresAt
Over(sessions, issued, now, t) ==
  /\ t \in 1..issued
  /\ t \in DOMAIN sessions => sessions[t].expiresAt < now

\* C38: a token whose logout has completed, or whose expiresAt the current
\* time is past, authenticates no request from then on: the logout that is
\* answered leaves its token over, a token that is over stays over, and a
\* request that carries it is rejected with no user set on it.
C38_TokenOverStaysOver ==
  [][ /\ (res'.op = "logout" /\ res'.ok)
           => Over(userSessions', tokensIssued', clock', res'.token)
      /\ \A t \in 1..MaxSessions :
           Over(userSessions, tokensIssued, clock, t)
             => Over(userSessions', tokensIssued', clock', t)
      /\ ( /\ res.op = "none" /\ res'.op \in {"me", "logout"}
           /\ Over(userSessions, tokensIssued, clock, res'.token) )
           => (~res'.ok /\ res'.userId = Null) ]_vars

\* C38 witness: a request that carries the token of a stored session was
\* rejected, the time being past the session's expiresAt
C38_Witness ==
  /\ res.op = "me" /\ ~res.ok /\ res.userId = Null
  /\ res.token \in DOMAIN userSessions
  /\ userSessions[res.token].expiresAt < clock

====
